---- MODULE Spec2Model ----
(***************************************************************************)
(* The plccli connection gateway (service.go): the startService goroutine  *)
(* (initial connect, keep-alive loop, shutdown path), reconnectOPCUA, the  *)
(* signal goroutine and the HTTP request handlers, all sharing the global  *)
(* session handle opcuaClient under the lock clientMutex.                  *)
(***************************************************************************)
EXTENDS Integers, Sequences, FiniteSets, TLC

\* ------------------------------------------------------------------ bounds
NumHandlers == 2
MaxBatch == 2
MaxSessions == 2
MaxEndpoints == 2

\* ------------------------------------------------------- program constants
maxRetries == 5
MaxBackoff == 30
DefaultPort == 8765
PortRangeStart == 10000
PortRangeSize == 55000
\* hash/fnv, 32 bits: the offset basis 2166136261 as two 16-bit halves, and
\* the prime 16777619 = 2^24 + 403
FnvOffsetHi == 33052
FnvOffsetLo == 40389
FnvPrimeLow == 403

\* A nil *opcua.Client, the goroutine running startService, an unlocked mutex.
NoHandle == 0
MainTask == 0
NoHolder == -1

Handlers == 1..NumHandlers
Kinds == {"read", "batch", "write", "browse", "info"}

VARIABLES
    opcuaClient,    \* the global session handle: NoHandle or a session id
    clientMutex,    \* the task holding clientMutex, or NoHolder
    open,           \* the sessions to the endpoint that are open
    created,        \* how many sessions have been created so far
    mainPc,         \* where the startService goroutine is
    caller,         \* who called connectOPCUA: "startService" or "reconnectOPCUA"
    client,         \* connectOPCUA's local: the client it has just connected
    attempt,        \* reconnectOPCUA's loop counter
    backoffTime,    \* reconnectOPCUA's local: the seconds it last slept
    ctxCancelled,   \* cancel() of the ambient context has been called
    sigPc,          \* where the signal goroutine is
    exitedBy,       \* "none" while the process lives, else how it ended
    server,         \* the HTTP listener: "off", "listening", "closed"
    endpointUp,     \* the remote endpoint answers
    hpc,            \* per handler: where it is
    hkind,          \* per handler: the request it serves
    hclient,        \* per handler: its snapshot of opcuaClient
    hleft,          \* per handler: batch slots still to process
    hcalls,         \* per handler: remote calls issued for this request
    hresp,          \* per handler: the response to its last request
    fn              \* the function run on its own, with its inputs and locals

mainVars == <<mainPc, caller, client, attempt, backoffTime>>
sessVars == <<opcuaClient, open, created>>
procVars == <<ctxCancelled, sigPc, exitedBy, server>>
handlerVars == <<hpc, hkind, hclient, hleft, hcalls, hresp>>
serviceVars == <<opcuaClient, clientMutex, open, created, mainPc, caller, client,
                 attempt, backoffTime, ctxCancelled, sigPc, exitedBy, server,
              endpointUp, hpc, hkind, hclient, hleft, hcalls, hresp>>
vars == <<serviceVars, fn>>

\* No function is being run on its own: the state is the service's.
NoCall == [name |-> "none"]

Alive == exitedBy = "none"

NoResponse == [kind |-> "none"]
Response(k) == [kind |-> k]

\* The process ends (os.Exit, log.Fatalf, or main returning): every
\* goroutine ends with it.
Exit(how) ==
    /\ exitedBy' = how
    /\ hpc' = [h \in Handlers |-> "gone"]
    /\ hkind' = [h \in Handlers |-> "none"]
    /\ hclient' = [h \in Handlers |-> NoHandle]
    /\ hleft' = [h \in Handlers |-> 0]
    /\ hcalls' = [h \in Handlers |-> 0]
    /\ hresp' = [h \in Handlers |-> NoResponse]

\* ------------------------------------------------------------ connectOPCUA
\* Certificate preparation and loading (local I/O); on success GetEndpoints
\* is issued.
ConnLoadCert ==
    /\ Alive /\ mainPc = "conn_cert"
    /\ \E ok \in BOOLEAN :
         mainPc' = IF ok THEN "conn_endpoints" ELSE "conn_err"
    /\ UNCHANGED <<caller, client, attempt, backoffTime, sessVars, clientMutex,
                   procVars, endpointUp, handlerVars>>
    /\ UNCHANGED fn

\* The context connectOPCUA was given is done: the ambient one for the
\* initial connect, a fresh one for every reconnect attempt.
ConnCtxDone == caller = "startService" /\ ctxCancelled

\* opcua.GetEndpoints returns, then the search for a compatible endpoint and
\* opcua.NewClient; on success client.Connect is issued.
ConnGetEndpoints ==
    /\ Alive /\ mainPc = "conn_endpoints"
    /\ \/ /\ endpointUp /\ ~ConnCtxDone
          /\ \E compatible \in BOOLEAN :
               mainPc' = IF compatible THEN "conn_dial" ELSE "conn_err"
       \/ /\ ~endpointUp \/ ConnCtxDone
          /\ mainPc' = "conn_err"
    /\ UNCHANGED <<caller, client, attempt, backoffTime, sessVars, clientMutex,
                   procVars, endpointUp, handlerVars>>
    /\ UNCHANGED fn

\* ConnDial storing the handle it was working on when Connect fails.
ConnDial_StoresOnFailure ==
    /\ Alive /\ mainPc = "conn_dial"
    /\ \/ /\ endpointUp /\ ~ConnCtxDone /\ created < MaxSessions
          /\ created' = created + 1
          /\ open' = open \cup {created + 1}
          /\ client' = created + 1
          /\ mainPc' = "conn_lock"
          /\ UNCHANGED opcuaClient
       \/ /\ ~endpointUp \/ ConnCtxDone
          /\ mainPc' = "conn_err"
          /\ opcuaClient' = client
          /\ UNCHANGED <<client, open, created>>
    /\ UNCHANGED <<caller, attempt, backoffTime, clientMutex, procVars,
                   endpointUp, handlerVars>>
    /\ UNCHANGED fn

\* client.Connect returns: a new open session, or an error.
ConnDial ==
    /\ Alive /\ mainPc = "conn_dial"
    /\ \/ /\ endpointUp /\ ~ConnCtxDone /\ created < MaxSessions
          /\ created' = created + 1
          /\ open' = open \cup {created + 1}
          /\ client' = created + 1
          /\ mainPc' = "conn_lock"
       \/ /\ ~endpointUp \/ ConnCtxDone
          /\ mainPc' = "conn_err"
          /\ UNCHANGED <<client, open, created>>
    /\ UNCHANGED <<opcuaClient, caller, attempt, backoffTime, clientMutex, procVars,
                   endpointUp, handlerVars>>
    /\ UNCHANGED fn

\* opcuaClient = client; clientMutex.Unlock(); return nil
ConnStore ==
    /\ Alive /\ mainPc = "conn_store" /\ clientMutex = MainTask
    /\ opcuaClient' = client
    /\ clientMutex' = NoHolder
    /\ mainPc' = "conn_ok"
    /\ UNCHANGED <<caller, client, attempt, backoffTime, open, created, procVars,
                   endpointUp, handlerVars>>
    /\ UNCHANGED fn

\* ------------------------------------------------- clientMutex.Lock() (main)
\* The statement after each Lock() call of the startService goroutine.
AfterLock(pc) ==
    CASE pc = "conn_lock" -> "conn_store"
      [] pc = "ka_lock"   -> "ka_check"
      [] pc = "rc_lock"   -> "rc_check"
      [] pc = "sd_lock"   -> "sd_check"

LockSites == {"conn_lock", "ka_lock", "rc_lock", "sd_lock"}

\* sync.Mutex is not reentrant: Lock() blocks while anyone, the caller
\* included, holds the mutex.
MainLock ==
    /\ Alive /\ mainPc \in LockSites
    /\ clientMutex = NoHolder
    /\ clientMutex' = MainTask
    /\ mainPc' = AfterLock(mainPc)
    /\ UNCHANGED <<caller, client, attempt, backoffTime, sessVars, procVars,
                   endpointUp, handlerVars>>
    /\ UNCHANGED fn

\* ------------------------------------------------------------ startService
\* StartConnFailed entering the reconnect cycle instead of ending.
StartConnFailed_Reconnects ==
    /\ Alive /\ mainPc = "conn_err" /\ caller = "startService"
    /\ mainPc' = "rc_lock" /\ caller' = "reconnectOPCUA"
    /\ server' = "listening"
    /\ UNCHANGED <<client, attempt, backoffTime, sessVars, clientMutex,
                   ctxCancelled, sigPc, exitedBy, endpointUp, handlerVars>>
    /\ UNCHANGED fn

\* log.Fatalf when the initial connect fails: the process ends.
StartConnFailed ==
    /\ Alive /\ mainPc = "conn_err" /\ caller = "startService"
    /\ Exit("fatal")
    /\ UNCHANGED <<mainVars, sessVars, clientMutex, ctxCancelled, sigPc,
                   server, endpointUp>>
    /\ UNCHANGED fn

\* The initial connect returned nil: the handlers are registered, the
\* listener goroutine and the 30 s ticker are started.
StartServe ==
    /\ Alive /\ mainPc = "conn_ok" /\ caller = "startService"
    /\ server' = "listening"
    /\ mainPc' = "select"
    /\ UNCHANGED <<caller, client, attempt, backoffTime, sessVars, clientMutex,
                   ctxCancelled, sigPc, exitedBy, endpointUp, handlerVars>>
    /\ UNCHANGED fn

\* case <-ticker.C: the next statement is clientMutex.Lock()
Tick ==
    /\ Alive /\ mainPc = "select"
    /\ mainPc' = "ka_lock"
    /\ UNCHANGED <<caller, client, attempt, backoffTime, sessVars, clientMutex,
                   procVars, endpointUp, handlerVars>>
    /\ UNCHANGED fn

\* if opcuaClient != nil: the keep-alive read timeNode.Value(ctx) is issued
\* (clientMutex still held); otherwise straight to Unlock().
KaCheck ==
    /\ Alive /\ mainPc = "ka_check" /\ clientMutex = MainTask
    /\ mainPc' = IF opcuaClient # NoHandle THEN "ka_read" ELSE "ka_unlock"
    /\ UNCHANGED <<caller, client, attempt, backoffTime, sessVars, clientMutex,
                   procVars, endpointUp, handlerVars>>
    /\ UNCHANGED fn

\* The keep-alive read returns. On an error reconnectOPCUA is called, whose
\* first statement is clientMutex.Lock().
KaRead ==
    /\ Alive /\ mainPc = "ka_read"
    /\ IF endpointUp /\ ~ctxCancelled /\ opcuaClient \in open
         THEN mainPc' = "ka_unlock" /\ UNCHANGED caller
         ELSE mainPc' = "rc_lock" /\ caller' = "reconnectOPCUA"
    /\ UNCHANGED <<client, attempt, backoffTime, sessVars, clientMutex,
                   procVars, endpointUp, handlerVars>>
    /\ UNCHANGED fn

\* clientMutex.Unlock() at the end of the tick
KaUnlock ==
    /\ Alive /\ mainPc = "ka_unlock" /\ clientMutex = MainTask
    /\ clientMutex' = NoHolder
    /\ mainPc' = "select"
    /\ UNCHANGED <<caller, client, attempt, backoffTime, sessVars, procVars,
                   endpointUp, handlerVars>>
    /\ UNCHANGED fn

\* case <-ctx.Done(): the next statement is clientMutex.Lock()
CtxDone ==
    /\ Alive /\ mainPc = "select" /\ ctxCancelled
    /\ mainPc' = "sd_lock"
    /\ UNCHANGED <<caller, client, attempt, backoffTime, sessVars, clientMutex,
                   procVars, endpointUp, handlerVars>>
    /\ UNCHANGED fn

\* if opcuaClient != nil: opcuaClient.Close(context.Background()) is issued
\* (clientMutex held); otherwise Unlock() and on to server.Shutdown.
SdCheck ==
    /\ Alive /\ mainPc = "sd_check" /\ clientMutex = MainTask
    /\ IF opcuaClient # NoHandle
         THEN mainPc' = "sd_close" /\ UNCHANGED clientMutex
         ELSE mainPc' = "sd_http" /\ clientMutex' = NoHolder
    /\ UNCHANGED <<caller, client, attempt, backoffTime, sessVars, procVars,
                   endpointUp, handlerVars>>
    /\ UNCHANGED fn

\* Close returns; opcuaClient = nil; clientMutex.Unlock(); server.Shutdown
\* is issued.
SdClose ==
    /\ Alive /\ mainPc = "sd_close" /\ clientMutex = MainTask
    /\ open' = open \ {opcuaClient}
    /\ opcuaClient' = NoHandle
    /\ clientMutex' = NoHolder
    /\ mainPc' = "sd_http"
    /\ UNCHANGED <<caller, client, attempt, backoffTime, created, procVars,
                   endpointUp, handlerVars>>
    /\ UNCHANGED fn

\* server.Shutdown returns (at most 5 s), startService returns, main returns.
SdShutdown ==
    /\ Alive /\ mainPc = "sd_http"
    /\ server' = "closed"
    /\ Exit("return")
    /\ mainPc' = "returned"
    /\ UNCHANGED <<caller, client, attempt, backoffTime, sessVars, clientMutex,
                   ctxCancelled, sigPc, endpointUp>>
    /\ UNCHANGED fn

\* ---------------------------------------------------------- reconnectOPCUA
\* if opcuaClient != nil: opcuaClient.Close(ctx) is issued (clientMutex held);
\* otherwise Unlock() and into the retry loop with attempt := 0.
RcCheck ==
    /\ Alive /\ mainPc = "rc_check" /\ clientMutex = MainTask
    /\ IF opcuaClient # NoHandle
         THEN mainPc' = "rc_close" /\ UNCHANGED <<clientMutex, attempt>>
         ELSE mainPc' = "rc_loop" /\ clientMutex' = NoHolder /\ attempt' = 0
    /\ UNCHANGED <<caller, client, backoffTime, sessVars, procVars,
                   endpointUp, handlerVars>>
    /\ UNCHANGED fn

\* RcClose clearing the handle without closing the session.
RcClose_KeepsOpen ==
    /\ Alive /\ mainPc = "rc_close" /\ clientMutex = MainTask
    /\ opcuaClient' = NoHandle
    /\ clientMutex' = NoHolder
    /\ attempt' = 0
    /\ mainPc' = "rc_loop"
    /\ UNCHANGED <<caller, client, backoffTime, open, created, procVars,
                   endpointUp, handlerVars>>
    /\ UNCHANGED fn

\* Close returns; opcuaClient = nil; clientMutex.Unlock(); attempt := 0
RcClose ==
    /\ Alive /\ mainPc = "rc_close" /\ clientMutex = MainTask
    /\ open' = open \ {opcuaClient}
    /\ opcuaClient' = NoHandle
    /\ clientMutex' = NoHolder
    /\ attempt' = 0
    /\ mainPc' = "rc_loop"
    /\ UNCHANGED <<caller, client, backoffTime, created, procVars,
                   endpointUp, handlerVars>>
    /\ UNCHANGED fn

\* RcLoop with the loop test off by one (attempt <= maxRetries).
RcLoop_OffByOne ==
    /\ Alive /\ mainPc = "rc_loop"
    /\ IF attempt <= maxRetries
         THEN mainPc' = "conn_cert" /\ UNCHANGED caller
         ELSE mainPc' = "ka_unlock" /\ caller' = "startService"
    /\ UNCHANGED <<client, attempt, backoffTime, sessVars, clientMutex,
                   procVars, endpointUp, handlerVars>>
    /\ UNCHANGED fn

\* for attempt := 0; attempt < maxRetries; attempt++: the loop test. Inside,
\* connectOPCUA is called; after the loop reconnectOPCUA returns to the
\* keep-alive tick.
RcLoop ==
    /\ Alive /\ mainPc = "rc_loop"
    /\ IF attempt < maxRetries
         THEN mainPc' = "conn_cert" /\ UNCHANGED caller
         ELSE mainPc' = "ka_unlock" /\ caller' = "startService"
    /\ UNCHANGED <<client, attempt, backoffTime, sessVars, clientMutex,
                   procVars, endpointUp, handlerVars>>
    /\ UNCHANGED fn

\* backoffTime := 1<<attempt seconds, capped at 30 s
Backoff(a) == IF 2^a > MaxBackoff THEN MaxBackoff ELSE 2^a

\* connectOPCUA returned an error: sleep unless this was the last attempt.
RcAttemptFailed ==
    /\ Alive /\ mainPc = "conn_err" /\ caller = "reconnectOPCUA"
    /\ IF attempt < maxRetries - 1
         THEN /\ mainPc' = "rc_sleep"
              /\ backoffTime' = Backoff(attempt)
              /\ UNCHANGED attempt
         ELSE /\ mainPc' = "rc_loop"
              /\ attempt' = attempt + 1
              /\ UNCHANGED backoffTime
    /\ UNCHANGED <<caller, client, sessVars, clientMutex, procVars,
                   endpointUp, handlerVars>>
    /\ UNCHANGED fn

\* time.Sleep(backoffTime) returns; attempt++
RcSleep ==
    /\ Alive /\ mainPc = "rc_sleep"
    /\ attempt' = attempt + 1
    /\ mainPc' = "rc_loop"
    /\ UNCHANGED <<caller, client, backoffTime, sessVars, clientMutex,
                   procVars, endpointUp, handlerVars>>
    /\ UNCHANGED fn

\* connectOPCUA returned nil: reconnectOPCUA returns to the keep-alive tick.
RcAttemptOk ==
    /\ Alive /\ mainPc = "conn_ok" /\ caller = "reconnectOPCUA"
    /\ mainPc' = "ka_unlock"
    /\ caller' = "startService"
    /\ UNCHANGED <<client, attempt, backoffTime, sessVars, clientMutex,
                   procVars, endpointUp, handlerVars>>
    /\ UNCHANGED fn

\* -------------------------------------------------------- signal goroutine
\* sig := <-sigChan (SIGINT or SIGTERM arrives); cancel(); the next
\* statement is time.Sleep(1 * time.Second)
Signal ==
    /\ Alive /\ sigPc = "wait"
    /\ ctxCancelled' = TRUE
    /\ sigPc' = "sleep"
    /\ UNCHANGED <<mainVars, sessVars, clientMutex, exitedBy, server,
                   endpointUp, handlerVars>>
    /\ UNCHANGED fn

\* The startService goroutine can go on without waiting for anything: its
\* next statement is local, a Lock() of the free mutex, or the return of a
\* call whose context has been cancelled.
MainRunsLocally ==
    \/ mainPc \in {"conn_cert", "conn_store", "conn_ok", "conn_err", "ka_check",
                   "ka_unlock", "rc_check", "rc_loop", "sd_check"}
    \/ mainPc \in LockSites /\ clientMutex = NoHolder
    \/ mainPc = "select" /\ ctxCancelled
    \/ mainPc = "ka_read" /\ ctxCancelled
    \/ mainPc \in {"conn_endpoints", "conn_dial"} /\ ConnCtxDone

\* The 1 s sleep ends while another goroutine is inside a blocking call (a
\* network call, a sleep, a Lock() of a held mutex): a run of local
\* statements does not outlast it. Then os.Exit(0).
SleepExit ==
    /\ Alive /\ sigPc = "sleep"
    /\ ~MainRunsLocally
    /\ \A h \in Handlers : hpc[h] # "snap"
    /\ Exit("signal")
    /\ sigPc' = "exited"
    /\ UNCHANGED <<mainVars, sessVars, clientMutex, ctxCancelled, server,
                   endpointUp>>
    /\ UNCHANGED fn

\* ------------------------------------------------------- remote endpoint
EndpointFails ==
    /\ Alive /\ endpointUp
    /\ endpointUp' = FALSE
    /\ UNCHANGED <<mainVars, sessVars, clientMutex, procVars, handlerVars>>
    /\ UNCHANGED fn

EndpointRecovers ==
    /\ Alive /\ ~endpointUp
    /\ endpointUp' = TRUE
    /\ UNCHANGED <<mainVars, sessVars, clientMutex, procVars, handlerVars>>
    /\ UNCHANGED fn

\* ------------------------------------------------------- request handlers
\* The port startService was given, and connectionName as it derives it
\* from that port.
connectionPort == DefaultPort

\* if port != 8765 { connectionName = fmt.Sprintf("connection-%d", port) }
\* else { connectionName = "default" }
ConnectionNameFor(port) ==
    IF port # DefaultPort
      THEN "connection-" \o ToString(port)
      ELSE "default"

connectionName == ConnectionNameFor(connectionPort)

Endpoint == "opc.tcp://plc:4840"

\* HandleInfo reading the session under clientMutex to report its status.
HandleInfo_Locking(h) ==
    /\ Alive /\ server = "listening" /\ hpc[h] = "idle"
    /\ clientMutex = NoHolder
    /\ hresp' = [hresp EXCEPT ![h] =
                   [kind |-> "info",
                    connection |-> connectionName, port |-> connectionPort,
                    endpoint |-> Endpoint, status |-> "connected"]]
    /\ UNCHANGED <<hpc, hkind, hcalls, hclient, hleft, mainVars, sessVars,
                   clientMutex, procVars, endpointUp>>
    /\ UNCHANGED fn

\* The /api/info handler: answers from the process's own configuration.
HandleInfo(h) ==
    /\ Alive /\ server = "listening" /\ hpc[h] = "idle"
    /\ hresp' = [hresp EXCEPT ![h] =
                   [kind |-> "info",
                    connection |-> connectionName, port |-> connectionPort,
                    endpoint |-> Endpoint, status |-> "connected"]]
    /\ UNCHANGED <<hpc, hkind, hcalls, hclient, hleft, mainVars, sessVars, clientMutex,
                   procVars, endpointUp>>
    /\ UNCHANGED fn

\* The requests whose validation precedes the Lock(): a read or a write with
\* a missing field or an address neither format parses, a write with no
\* dataType, a batch that does not decode or names no node.
HandleBadRequest(h) ==
    /\ Alive /\ server = "listening" /\ hpc[h] = "idle"
    /\ hresp' = [hresp EXCEPT ![h] = Response("bad_request")]
    /\ UNCHANGED <<hpc, hkind, hcalls, hclient, hleft, mainVars, sessVars, clientMutex,
                   procVars, endpointUp>>
    /\ UNCHANGED fn

\* A read, batch read, write or browse request that passes the checks made
\* before the lock: the next statement is clientMutex.Lock().
HandleRequest(h) ==
    /\ Alive /\ server = "listening" /\ hpc[h] = "idle"
    /\ \E k \in Kinds \ {"info"} : hkind' = [hkind EXCEPT ![h] = k]
    /\ hpc' = [hpc EXCEPT ![h] = "lock"]
    /\ hresp' = [hresp EXCEPT ![h] = NoResponse]
    /\ UNCHANGED <<hclient, hleft, hcalls, mainVars, sessVars, clientMutex,
                   procVars, endpointUp>>
    /\ UNCHANGED fn

\* clientMutex.Lock() in a handler
HandlerLock(h) ==
    /\ Alive /\ hpc[h] = "lock"
    /\ clientMutex = NoHolder
    /\ clientMutex' = h
    /\ hpc' = [hpc EXCEPT ![h] = "snap"]
    /\ UNCHANGED <<hkind, hclient, hleft, hcalls, hresp, mainVars, sessVars,
                   procVars, endpointUp>>
    /\ UNCHANGED fn

\* The handler's answer: the response is written and the goroutine ends.
Respond(h, k) ==
    /\ hresp' = [hresp EXCEPT ![h] = Response(k)]
    /\ hpc' = [hpc EXCEPT ![h] = "idle"]
    /\ hkind' = [hkind EXCEPT ![h] = "none"]
    /\ hclient' = [hclient EXCEPT ![h] = NoHandle]
    /\ hleft' = [hleft EXCEPT ![h] = 0]
    /\ hcalls' = [hcalls EXCEPT ![h] = 0]

\* HandlerSnapshot taking the handle over instead of copying it.
HandlerSnapshot_TakesHandle(h) ==
    /\ Alive /\ hpc[h] = "snap" /\ clientMutex = h
    /\ clientMutex' = NoHolder
    /\ opcuaClient' = NoHandle
    /\ IF opcuaClient = NoHandle
         THEN Respond(h, "not_connected")
         ELSE /\ hclient' = [hclient EXCEPT ![h] = opcuaClient]
              /\ hpc' = [hpc EXCEPT ![h] = "ready"]
              /\ hleft' = [hleft EXCEPT ![h] = 1]
              /\ UNCHANGED <<hkind, hcalls, hresp>>
    /\ UNCHANGED <<mainVars, open, created, procVars, endpointUp>>
    /\ UNCHANGED fn

\* HandlerSnapshot without the `if client == nil` answer.
HandlerSnapshot_NoNilCheck(h) ==
    /\ Alive /\ hpc[h] = "snap" /\ clientMutex = h
    /\ clientMutex' = NoHolder
    /\ hclient' = [hclient EXCEPT ![h] = opcuaClient]
    /\ hpc' = [hpc EXCEPT ![h] = "ready"]
    /\ hleft' = [hleft EXCEPT ![h] = 1]
    /\ UNCHANGED <<hkind, hcalls, hresp, mainVars, sessVars, procVars,
                   endpointUp>>
    /\ UNCHANGED fn

\* The slots of the request: the n nodes of a batch, one otherwise.
Slots(k) == IF k = "batch" THEN 1..MaxBatch ELSE {1}

\* client := opcuaClient; clientMutex.Unlock(); if client == nil the
\* not-connected answer. A write then converts its value under the declared
\* type and answers at once when that fails; a batch enters its loop over
\* the n nodes of the request.
HandlerSnapshot(h) ==
    /\ Alive /\ hpc[h] = "snap" /\ clientMutex = h
    /\ clientMutex' = NoHolder
    /\ IF opcuaClient = NoHandle
         THEN Respond(h, "not_connected")
         ELSE \E parses \in BOOLEAN, n \in Slots(hkind[h]) :
                IF hkind[h] = "write" /\ ~parses
                  THEN Respond(h, "invalid_value")
                  ELSE /\ hclient' = [hclient EXCEPT ![h] = opcuaClient]
                       /\ hpc' = [hpc EXCEPT ![h] = "ready"]
                       /\ hleft' = [hleft EXCEPT ![h] = n]
                       /\ UNCHANGED <<hkind, hcalls, hresp>>
    /\ UNCHANGED <<mainVars, sessVars, procVars, endpointUp>>
    /\ UNCHANGED fn

\* A batch slot whose fields are missing or whose address does not parse:
\* an error in that slot, no remote call.
BatchSlotInvalid(h) ==
    /\ Alive /\ hpc[h] = "ready" /\ hkind[h] = "batch" /\ hleft[h] > 0
    /\ hleft' = [hleft EXCEPT ![h] = @ - 1]
    /\ UNCHANGED <<hpc, hkind, hclient, hcalls, hresp, mainVars, sessVars,
                   clientMutex, procVars, endpointUp>>
    /\ UNCHANGED fn

\* node.Value(ctx), client.Write(ctx, req) or doBrowse(ctx, client, ...) is
\* issued on the snapshot.
HandlerCall(h) ==
    /\ Alive /\ hpc[h] = "ready" /\ hleft[h] > 0
    /\ hpc' = [hpc EXCEPT ![h] = "call"]
    /\ hcalls' = [hcalls EXCEPT ![h] = @ + 1]
    /\ UNCHANGED <<hkind, hclient, hleft, hresp, mainVars, sessVars,
                   clientMutex, procVars, endpointUp>>
    /\ UNCHANGED fn

\* What the remote call can return: an I/O error when the endpoint does not
\* answer or the session is closed, otherwise a value or a bad status.
CallOutcomes(h) ==
    IF endpointUp /\ hclient[h] \in open
      THEN {"value", "remote_failed"}
      ELSE {"io_error"}

\* HandlerReturn dropping the global handle when the call failed.
HandlerReturn_DropsHandle(h) ==
    /\ Alive /\ hpc[h] = "call"
    /\ \E out \in CallOutcomes(h) :
         /\ opcuaClient' = IF out = "io_error" THEN NoHandle ELSE opcuaClient
         /\ IF hkind[h] = "batch"
              THEN /\ hleft' = [hleft EXCEPT ![h] = @ - 1]
                   /\ hpc' = [hpc EXCEPT ![h] = "ready"]
                   /\ UNCHANGED <<hkind, hclient, hcalls, hresp>>
              ELSE Respond(h, out)
    /\ UNCHANGED <<mainVars, open, created, clientMutex, procVars, endpointUp>>
    /\ UNCHANGED fn

\* HandlerReturn issuing the call again when it failed.
HandlerReturn_Retries(h) ==
    /\ Alive /\ hpc[h] = "call"
    /\ \E out \in CallOutcomes(h) :
         IF hkind[h] = "batch"
           THEN /\ hleft' = [hleft EXCEPT ![h] = @ - 1]
                /\ hpc' = [hpc EXCEPT ![h] = "ready"]
                /\ UNCHANGED <<hkind, hclient, hcalls, hresp>>
           ELSE IF out = "value" \/ hcalls[h] > 1
             THEN Respond(h, out)
             ELSE /\ hpc' = [hpc EXCEPT ![h] = "ready"]
                  /\ UNCHANGED <<hkind, hclient, hleft, hcalls, hresp>>
    /\ UNCHANGED <<mainVars, sessVars, clientMutex, procVars, endpointUp>>
    /\ UNCHANGED fn

\* The remote call returns. A batch goes on with its next slot; the others
\* answer with the value or with the error.
HandlerReturn(h) ==
    /\ Alive /\ hpc[h] = "call"
    /\ \E out \in CallOutcomes(h) :
         IF hkind[h] = "batch"
           THEN /\ hleft' = [hleft EXCEPT ![h] = @ - 1]
                /\ hpc' = [hpc EXCEPT ![h] = "ready"]
                /\ UNCHANGED <<hkind, hclient, hcalls, hresp>>
           ELSE Respond(h, out)
    /\ UNCHANGED <<mainVars, sessVars, clientMutex, procVars, endpointUp>>
    /\ UNCHANGED fn

\* The batch loop is over: the combined response is sent.
BatchDone(h) ==
    /\ Alive /\ hpc[h] = "ready" /\ hkind[h] = "batch" /\ hleft[h] = 0
    /\ Respond(h, "results")
    /\ UNCHANGED <<mainVars, sessVars, clientMutex, procVars, endpointUp>>
    /\ UNCHANGED fn

\* ----------------------------------------------------------- the program
\* The service's own variables when startService is entered.
ServiceInit ==
    /\ opcuaClient = NoHandle
    /\ clientMutex = NoHolder
    /\ open = {}
    /\ created = 0
    /\ mainPc = "conn_cert"
    /\ caller = "startService"
    /\ client = NoHandle
    /\ attempt = 0
    /\ backoffTime = 0
    /\ ctxCancelled = FALSE
    /\ sigPc = "wait"
    /\ exitedBy = "none"
    /\ server = "off"
    /\ endpointUp \in BOOLEAN
    /\ hpc = [h \in Handlers |-> "idle"]
    /\ hkind = [h \in Handlers |-> "none"]
    /\ hclient = [h \in Handlers |-> NoHandle]
    /\ hleft = [h \in Handlers |-> 0]
    /\ hcalls = [h \in Handlers |-> 0]
    /\ hresp = [h \in Handlers |-> NoResponse]

Init == ServiceInit /\ fn = NoCall

ConnectStep == ConnLoadCert \/ ConnGetEndpoints \/ ConnDial \/ ConnStore

\* The startService goroutine. Of reconnectOPCUA it can take the Lock() the
\* function begins with (MainLock at "rc_lock").
MainStep ==
    \/ ConnectStep \/ MainLock \/ StartConnFailed \/ StartServe
    \/ Tick \/ KaCheck \/ KaRead \/ KaUnlock
    \/ CtxDone \/ SdCheck \/ SdClose \/ SdShutdown

SignalStep == Signal \/ SleepExit

HandlerStep(h) ==
    \/ HandleInfo(h) \/ HandleBadRequest(h) \/ HandleRequest(h)
    \/ HandlerLock(h) \/ HandlerSnapshot(h) \/ BatchSlotInvalid(h)
    \/ HandlerCall(h) \/ HandlerReturn(h) \/ BatchDone(h)

EndpointStep == EndpointFails \/ EndpointRecovers

Next ==
    \/ MainStep
    \/ SignalStep
    \/ \E h \in Handlers : HandlerStep(h)
    \/ EndpointStep

Spec == Init /\ [][Next]_vars

\* The handler steps that do not wait for a new request to arrive.
HandlerProgress(h) ==
    \/ HandlerLock(h) \/ HandlerSnapshot(h) \/ BatchSlotInvalid(h)
    \/ HandlerCall(h) \/ HandlerReturn(h) \/ BatchDone(h)

\* The program under the scheduling Go gives it: a goroutine that can run
\* again and again does run (sync.Mutex hands the lock to a starving
\* waiter), the ticker keeps firing, a sleep ends. Signals, requests and the
\* endpoint's failures are the environment's and need not happen.
FairSpec ==
    /\ Spec
    /\ SF_vars(MainStep)
    /\ \A h \in Handlers : SF_vars(HandlerProgress(h))
    /\ WF_vars(SleepExit)

\* ------------------------------------------- reconnectOPCUA on its own
\* reconnectOPCUA entered with a session installed and clientMutex free,
\* beside one request handler and the signal goroutine. (From the keep-alive
\* tick it is entered with clientMutex held by the caller: that is Spec.)
ReconnectInit ==
    /\ opcuaClient = 1
    /\ clientMutex = NoHolder
    /\ open = {1}
    /\ created = 1
    /\ mainPc = "rc_lock"
    /\ caller = "reconnectOPCUA"
    /\ client = 1
    /\ attempt = 0
    /\ backoffTime = 0
    /\ ctxCancelled = FALSE
    /\ sigPc = "wait"
    /\ exitedBy = "none"
    /\ server = "listening"
    /\ endpointUp \in BOOLEAN
    /\ hpc = [h \in Handlers |-> "idle"]
    /\ hkind = [h \in Handlers |-> "none"]
    /\ hclient = [h \in Handlers |-> NoHandle]
    /\ hleft = [h \in Handlers |-> 0]
    /\ hcalls = [h \in Handlers |-> 0]
    /\ hresp = [h \in Handlers |-> NoResponse]
    /\ fn = NoCall

ReconnectStep ==
    \/ MainLock \/ RcCheck \/ RcClose \/ RcLoop \/ ConnectStep
    \/ RcAttemptFailed \/ RcSleep \/ RcAttemptOk

ReconnectNext ==
    \/ ReconnectStep
    \/ SignalStep
    \/ HandlerStep(1)
    \/ EndpointStep

ReconnectSpec == ReconnectInit /\ [][ReconnectNext]_vars

\* ---------------------------------------------------------- session state
ConnectPcs == {"conn_cert", "conn_endpoints", "conn_dial", "conn_lock",
               "conn_store", "conn_ok", "conn_err"}

\* The lifecycle state of the session, read off the program: inside
\* reconnectOPCUA it is Reconnecting, inside the initial connectOPCUA
\* Connecting, otherwise Connected exactly when a handle is installed.
SessionState ==
    IF caller = "reconnectOPCUA" THEN "Reconnecting"
    ELSE IF mainPc \in ConnectPcs THEN "Connecting"
    ELSE IF opcuaClient # NoHandle THEN "Connected"
    ELSE "Disconnected"

\* A task is inside a call to the remote endpoint.
MainInNetworkCall ==
    mainPc \in {"conn_endpoints", "conn_dial", "ka_read", "rc_close", "sd_close"}

HandlerInNetworkCall(h) == hpc[h] = "call"

\* ------------------------------------- connectOPCUA: endpoint selection
\* Endpoint descriptions a server may advertise (policy, mode, identity
\* tokens), and the security settings a caller may configure with
\* --security-policy, --security-mode and --auth-method.
EndpointDescriptions ==
    { [policy |-> "None", mode |-> "None", tokens |-> {"Anonymous"}],
      [policy |-> "Basic256", mode |-> "SignAndEncrypt", tokens |-> {"UserName"}],
      [policy |-> "Basic256", mode |-> "SignAndEncrypt", tokens |-> {"Anonymous"}],
      [policy |-> "Basic256", mode |-> "Sign", tokens |-> {"UserName"}],
      [policy |-> "Basic256Sha256", mode |-> "SignAndEncrypt",
       tokens |-> {"Anonymous", "UserName"}] }

SecurityConfigs ==
    { [policy |-> "Basic256", mode |-> "SignAndEncrypt", auth |-> "UserName"],
      [policy |-> "Basic256", mode |-> "SignAndEncrypt", auth |-> "Anonymous"],
      [policy |-> "Basic256Sha256", mode |-> "SignAndEncrypt", auth |-> "UserName"],
      [policy |-> "None", mode |-> "None", auth |-> "Anonymous"] }

EndpointLists ==
    UNION { [1..n -> EndpointDescriptions] : n \in 0..MaxEndpoints }

\* The test of the selection loop: e.SecurityPolicyURI ==
\* ua.SecurityPolicyURIBasic256 && e.SecurityMode ==
\* ua.MessageSecurityModeSignAndEncrypt, and some identity token of type
\* ua.UserTokenTypeUserName. The configured settings are not consulted.
Compatible(e) ==
    /\ e.policy = "Basic256"
    /\ e.mode = "SignAndEncrypt"
    /\ "UserName" \in e.tokens

\* for _, e := range endpoints: serverEndpoint is the first compatible
\* endpoint, 0 standing for nil.
FindEndpoint(endpoints) ==
    LET ok == {i \in DOMAIN endpoints : Compatible(endpoints[i])}
    IN IF ok = {} THEN 0
       ELSE CHOOSE i \in ok : \A k \in ok : i <= k

\* connectOPCUA has received the server's endpoints.
SelectInit ==
    /\ ServiceInit /\ endpointUp
    /\ \E eps \in EndpointLists, cfg \in SecurityConfigs :
         fn = [name |-> "connectOPCUA", pc |-> "find", endpoints |-> eps,
               config |-> cfg, serverEndpoint |-> 0, err |-> "none"]

\* The selection loop, then `if serverEndpoint == nil` returning the error
\* "no compatible endpoint found".
SelectEndpoint ==
    /\ fn.name = "connectOPCUA" /\ fn.pc = "find"
    /\ LET e == FindEndpoint(fn.endpoints)
       IN fn' = [fn EXCEPT !.serverEndpoint = e,
                           !.pc = IF e = 0 THEN "returned" ELSE "selected",
                           !.err = IF e = 0 THEN "no compatible endpoint found"
                                   ELSE "none"]
    /\ UNCHANGED serviceVars

\* With an endpoint selected the client is built from it
\* (opcua.SecurityFromEndpoint(serverEndpoint, ua.UserTokenTypeUserName)).
SelectBuildClient ==
    /\ fn.name = "connectOPCUA" /\ fn.pc = "selected"
    /\ fn' = [fn EXCEPT !.pc = "client"]
    /\ UNCHANGED serviceVars

SelectNext == SelectEndpoint \/ SelectBuildClient

SelectSpec == SelectInit /\ [][SelectNext]_vars

\* ------------------------------------------- handleBatchNodeRequest alone
\* What a slot of a batch request is: a node with a field missing, a node
\* whose address ua.ParseNodeID rejects, or a well-formed node whose read the
\* endpoint answers with a value, answers with an error, or does not answer.
SlotKinds == {"missing", "invalid", "value", "bad", "hang"}

BatchRequests ==
    UNION { [1..n -> SlotKinds] : n \in 1..MaxBatch }

\* The handler has decoded a request naming at least one node, has found a
\* client installed and has created its context: ctx, cancel :=
\* context.WithTimeout(context.Background(), 10*time.Second), one context
\* for the whole request.
BatchInit ==
    /\ ServiceInit /\ endpointUp
    /\ \E nodes \in BatchRequests :
         fn = [name |-> "handleBatchNodeRequest", pc |-> "loop", nodes |-> nodes,
               i |-> 1, results |-> <<>>, ctxExpired |-> FALSE, sent |-> <<>>]

\* What node.Value(ctx) returns for a node, and whether the context's
\* deadline has passed when it returns: a read on an expired context fails
\* at once, a read the endpoint does not answer fails when the deadline
\* passes.
ReadNode(kind, ctxExpired) ==
    IF ctxExpired THEN [kind |-> "read_failed", ctxExpired |-> TRUE]
    ELSE IF kind = "hang" THEN [kind |-> "read_failed", ctxExpired |-> TRUE]
    ELSE IF kind = "bad" THEN [kind |-> "read_failed", ctxExpired |-> FALSE]
    ELSE [kind |-> "value", ctxExpired |-> FALSE]

\* One iteration for a node that fails validation: an error result for the
\* node is appended and the loop continues.
BatchSlotRejected ==
    /\ fn.name = "handleBatchNodeRequest" /\ fn.pc = "loop"
    /\ fn.i <= Len(fn.nodes)
    /\ fn.nodes[fn.i] \in {"missing", "invalid"}
    /\ fn' = [fn EXCEPT
                 !.results = Append(@, [node |-> fn.i,
                     kind |-> IF fn.nodes[fn.i] = "missing"
                                THEN "missing_parameters" ELSE "invalid_node_id"]),
                 !.i = @ + 1]
    /\ UNCHANGED serviceVars

\* One iteration for a well-formed node: node.Value(ctx), and the value or
\* the error is appended.
BatchSlotRead ==
    /\ fn.name = "handleBatchNodeRequest" /\ fn.pc = "loop"
    /\ fn.i <= Len(fn.nodes)
    /\ fn.nodes[fn.i] \notin {"missing", "invalid"}
    /\ LET r == ReadNode(fn.nodes[fn.i], fn.ctxExpired)
       IN fn' = [fn EXCEPT
                    !.results = Append(@, [node |-> fn.i, kind |-> r.kind]),
                    !.ctxExpired = r.ctxExpired,
                    !.i = @ + 1]
    /\ UNCHANGED serviceVars

\* After the loop: sendJSONResponseGeneric with the results.
BatchSend ==
    /\ fn.name = "handleBatchNodeRequest" /\ fn.pc = "loop"
    /\ fn.i > Len(fn.nodes)
    /\ fn' = [fn EXCEPT !.sent = fn.results, !.pc = "returned"]
    /\ UNCHANGED serviceVars

BatchNext == BatchSlotRejected \/ BatchSlotRead \/ BatchSend

BatchSpec == BatchInit /\ [][BatchNext]_vars

\* ------------------------------------------- strconv, as the write path uses it
\* The i-th character of a text.
Char(s, i) == SubSeq(s, i, i)

Digits == {"0", "1", "2", "3", "4", "5", "6", "7", "8", "9"}

DigitVal(c) == CHOOSE n \in 0..9 : ToString(n) = c

AllDigits(s) == \A i \in 1..Len(s) : Char(s, i) \in Digits

\* strings.ToLower on ASCII text
UpperLetters == "ABCDEFGHIJKLMNOPQRSTUVWXYZ"
LowerLetters == "abcdefghijklmnopqrstuvwxyz"

LowerChar(c) ==
    IF \E i \in 1..26 : Char(UpperLetters, i) = c
      THEN Char(LowerLetters, CHOOSE i \in 1..26 : Char(UpperLetters, i) = c)
      ELSE c

RECURSIVE ToLower(_)
ToLower(s) == IF s = "" THEN "" ELSE LowerChar(Head(s)) \o ToLower(Tail(s))

\* ParseBool taking every text but the false ones for true.
ParseBool_NonZero(str) ==
    IF str \in {"0", "f", "F", "FALSE", "false", "False"}
      THEN [err |-> "none", value |-> FALSE]
      ELSE [err |-> "none", value |-> TRUE]

\* strconv.ParseBool: the twelve texts it accepts.
ParseBool(str) ==
    IF str \in {"1", "t", "T", "TRUE", "true", "True"}
      THEN [err |-> "none", value |-> TRUE]
    ELSE IF str \in {"0", "f", "F", "FALSE", "false", "False"}
      THEN [err |-> "none", value |-> FALSE]
    ELSE [err |-> "syntax"]

\* A magnitude is a digit text without leading zeros; numbers of 64 bits do
\* not fit the model checker's integers, so magnitudes are compared as texts.
RECURSIVE StripZeros(_)
StripZeros(s) ==
    IF Len(s) > 1 /\ Head(s) = "0" THEN StripZeros(Tail(s)) ELSE s

MagLess(a, b) ==
    \/ Len(a) < Len(b)
    \/ /\ Len(a) = Len(b)
       /\ \E i \in 1..Len(a) :
            /\ \A k \in 1..(i - 1) : Char(a, k) = Char(b, k)
            /\ DigitVal(Char(a, i)) < DigitVal(Char(b, i))

\* 1<<bitSize - 1 and 1<<(bitSize-1)
MaxUint(bitSize) ==
    CASE bitSize = 8  -> "255"
      [] bitSize = 16 -> "65535"
      [] bitSize = 32 -> "4294967295"
      [] bitSize = 64 -> "18446744073709551615"

Cutoff(bitSize) ==
    CASE bitSize = 8  -> "128"
      [] bitSize = 16 -> "32768"
      [] bitSize = 32 -> "2147483648"
      [] bitSize = 64 -> "9223372036854775808"

\* strconv.ParseUint(s, 10, bitSize): digits only, no sign; ErrRange above
\* 1<<bitSize - 1.
ParseUint(s, bitSize) ==
    IF s = "" \/ ~AllDigits(s) THEN [err |-> "syntax"]
    ELSE IF MagLess(MaxUint(bitSize), StripZeros(s)) THEN [err |-> "range"]
    ELSE [err |-> "none", neg |-> FALSE, mag |-> StripZeros(s)]

\* ParseInt without its range test (the value is then cut to the width by
\* the conversion int8(intValue), ...).
ParseInt_NoRange(s, bitSize) ==
    IF s = "" THEN [err |-> "syntax"]
    ELSE LET neg == Head(s) = "-"
             digits == IF Head(s) \in {"+", "-"} THEN Tail(s) ELSE s
         IN IF digits = "" \/ ~AllDigits(digits) THEN [err |-> "syntax"]
            ELSE [err |-> "none",
                  neg |-> neg /\ StripZeros(digits) # "0",
                  mag |-> StripZeros(digits)]

\* strconv.ParseInt(s, 10, bitSize): an optional sign, then ParseUint;
\* ErrRange for un >= cutoff (un > cutoff when negative), cutoff being
\* 1<<(bitSize-1).
ParseInt(s, bitSize) ==
    IF s = "" THEN [err |-> "syntax"]
    ELSE LET neg == Head(s) = "-"
             digits == IF Head(s) \in {"+", "-"} THEN Tail(s) ELSE s
         IN IF digits = "" \/ ~AllDigits(digits) THEN [err |-> "syntax"]
            ELSE LET un == StripZeros(digits)
                 IN IF ~neg /\ ~MagLess(un, Cutoff(bitSize))
                      THEN [err |-> "range"]
                    ELSE IF neg /\ MagLess(Cutoff(bitSize), un)
                      THEN [err |-> "range"]
                    ELSE [err |-> "none", neg |-> neg /\ un # "0", mag |-> un]

\* strconv.ParseFloat on decimal texts: an optional sign, digits with an
\* optional point, an optional exponent; inf, infinity (signed or not) and
\* nan in any case. (Hexadecimal mantissas and values out of the width's
\* range are not among WriteTexts.)
IsMantissa(x) ==
    \E k \in 0..Len(x) :
       LET int == SubSeq(x, 1, k)
       IN /\ AllDigits(int)
          /\ \/ k = Len(x) /\ k > 0
             \/ /\ k < Len(x) /\ Char(x, k + 1) = "."
                /\ AllDigits(SubSeq(x, k + 2, Len(x)))
                /\ Len(x) > 1

IsExponent(x) ==
    LET y == IF x # "" /\ Head(x) \in {"+", "-"} THEN Tail(x) ELSE x
    IN y # "" /\ AllDigits(y)

ParseFloat(s) ==
    LET signed == s # "" /\ Head(s) \in {"+", "-"}
        body == IF signed THEN Tail(s) ELSE s
    IN IF \/ ToLower(body) \in {"inf", "infinity"}
          \/ ~signed /\ ToLower(body) = "nan"
          \/ \E m \in 1..Len(body) :
                /\ IsMantissa(SubSeq(body, 1, m))
                /\ \/ m = Len(body)
                   \/ /\ Char(body, m + 1) \in {"e", "E"}
                      /\ IsExponent(SubSeq(body, m + 2, Len(body)))
         THEN [err |-> "none", text |-> s]
         ELSE [err |-> "syntax"]

\* ------------------------------------------- handleNodeWriteRequest alone
\* The dataType and value texts of the write requests considered.
WriteTags ==
    {"", "boolean", "Boolean", "sbyte", "byte", "int16", "UINT16", "uint16",
     "int32", "uint32", "int64", "uint64", "float", "double", "string", "bit"}

WriteTexts ==
    {"", "0", "1", "2", "t", "T", "true", "TRUE", "True", "false", "FALSE",
     "False", "f", "F", "yes", "tRuE", "not-a-bool",
     "-0", "+5", "-1", "007", "127", "128", "-128", "-129", "255", "256",
     "32767", "32768", "-32768", "-32769", "65535", "65536",
     "2147483647", "2147483648", "-2147483648", "-2147483649",
     "4294967295", "4294967296",
     "9223372036854775807", "9223372036854775808",
     "-9223372036854775808", "-9223372036854775809",
     "18446744073709551615", "18446744073709551616",
     "12a", "-", " 1", "1.5", "-2.5e3", ".5", "5.", "1e", "1.2.3", "NaN",
     "-inf"}

BitSize(tag) ==
    CASE tag \in {"sbyte", "byte"}   -> 8
      [] tag \in {"int16", "uint16"} -> 16
      [] tag \in {"int32", "uint32"} -> 32
      [] tag \in {"int64", "uint64"} -> 64

\* The switch on strings.ToLower(writeRequest.DataType): the variant built
\* from the value, or the error response of the case.
ConvertValue(dataType, value) ==
    LET tag == ToLower(dataType)
        parsed ==
          CASE tag = "boolean" -> ParseBool(value)
            [] tag \in {"sbyte", "int16", "int32", "int64"} ->
                 ParseInt(value, BitSize(tag))
            [] tag \in {"byte", "uint16", "uint32", "uint64"} ->
                 ParseUint(value, BitSize(tag))
            [] tag \in {"float", "double"} -> ParseFloat(value)
            [] tag = "string" -> [err |-> "none", text |-> value]
            [] OTHER -> [err |-> "unsupported"]
    IN IF parsed.err = "unsupported"
         THEN [kind |-> "unsupported_type", tag |-> dataType]
       ELSE IF parsed.err # "none"
         THEN [kind |-> "invalid_value", tag |-> tag]
       ELSE [kind |-> "variant", tag |-> tag, value |-> parsed]

\* A POST /api/node request has been decoded.
WriteInit ==
    /\ ServiceInit /\ endpointUp
    /\ \E dataType \in WriteTags, value \in WriteTexts,
          address \in {"ok", "missing", "invalid"}, installed \in BOOLEAN :
         fn = [name |-> "handleNodeWriteRequest", pc |-> "validate",
               dataType |-> dataType, value |-> value, address |-> address,
               client |-> installed, variant |-> [kind |-> "none"],
               writes |-> 0, resp |-> NoResponse]

\* The checks before the lock, in the code's order: the address fields, the
\* data type, the node id in either format.
WriteValidate ==
    /\ fn.name = "handleNodeWriteRequest" /\ fn.pc = "validate"
    /\ fn' = IF fn.address = "missing"
               THEN [fn EXCEPT !.pc = "returned",
                               !.resp = [kind |-> "missing_fields"]]
             ELSE IF fn.dataType = ""
               THEN [fn EXCEPT !.pc = "returned",
                               !.resp = [kind |-> "type_required"]]
             ELSE IF fn.address = "invalid"
               THEN [fn EXCEPT !.pc = "returned",
                               !.resp = [kind |-> "invalid_node_id"]]
             ELSE [fn EXCEPT !.pc = "client"]
    /\ UNCHANGED serviceVars

\* client := opcuaClient under the lock; if client == nil the not-connected
\* answer.
WriteGetClient ==
    /\ fn.name = "handleNodeWriteRequest" /\ fn.pc = "client"
    /\ fn' = IF fn.client
               THEN [fn EXCEPT !.pc = "convert"]
               ELSE [fn EXCEPT !.pc = "returned",
                               !.resp = [kind |-> "not_connected"]]
    /\ UNCHANGED serviceVars

\* WriteConvert going on to the write with whatever the conversion gave.
WriteConvert_SendsAnyway ==
    /\ fn.name = "handleNodeWriteRequest" /\ fn.pc = "convert"
    /\ fn' = [fn EXCEPT !.pc = "write",
                        !.variant = ConvertValue(fn.dataType, fn.value)]
    /\ UNCHANGED serviceVars

\* The conversion switch: an error response, or the variant to write.
WriteConvert ==
    /\ fn.name = "handleNodeWriteRequest" /\ fn.pc = "convert"
    /\ LET v == ConvertValue(fn.dataType, fn.value)
       IN fn' = IF v.kind = "variant"
                  THEN [fn EXCEPT !.pc = "write", !.variant = v]
                  ELSE [fn EXCEPT !.pc = "returned", !.resp = v]
    /\ UNCHANGED serviceVars

\* client.Write(ctx, req) with the one WriteValue, and the response: the
\* transport error, the status that is not ua.StatusOK, or the value.
WriteSend ==
    /\ fn.name = "handleNodeWriteRequest" /\ fn.pc = "write"
    /\ \E out \in {"ok", "bad_status", "io_error"} :
         fn' = [fn EXCEPT
                  !.writes = @ + 1,
                  !.pc = "returned",
                  !.resp = CASE out = "ok" -> [kind |-> "value", value |-> fn.value]
                             [] out = "bad_status" -> [kind |-> "remote_failed"]
                             [] OTHER -> [kind |-> "io_error"]]
    /\ UNCHANGED serviceVars

WriteNext == WriteValidate \/ WriteGetClient \/ WriteConvert \/ WriteSend

WriteSpec == WriteInit /\ [][WriteNext]_vars

\* ------------------------------------------------ getPortForConnection
\* The byte of an ASCII character of a connection name.
ByteOf(c) ==
    IF \E i \in 1..10 : Char("0123456789", i) = c
      THEN 47 + (CHOOSE i \in 1..10 : Char("0123456789", i) = c)
    ELSE IF \E i \in 1..26 : Char(UpperLetters, i) = c
      THEN 64 + (CHOOSE i \in 1..26 : Char(UpperLetters, i) = c)
    ELSE IF \E i \in 1..26 : Char(LowerLetters, i) = c
      THEN 96 + (CHOOSE i \in 1..26 : Char(LowerLetters, i) = c)
    ELSE IF c = "-" THEN 45
    ELSE 95

\* a ^ b on bytes
RECURSIVE Xor(_, _)
Xor(a, b) ==
    IF a = 0 /\ b = 0 THEN 0
    ELSE (((a % 2) + (b % 2)) % 2) + 2 * Xor(a \div 2, b \div 2)

\* One byte of FNV multiplying before it xors (FNV-1, fnv.New32).
FnvWrite_MultiplyFirst(h, b) ==
    LET t == h.lo * FnvPrimeLow
        lo == t % 65536
        hi == (h.hi * FnvPrimeLow + (t \div 65536) + (h.lo % 256) * 256) % 65536
    IN [hi |-> hi, lo |-> (lo \div 256) * 256 + Xor(lo % 256, b)]

\* One byte of FNV-1a on uint32: hash ^= b; hash *= 16777619, the 32-bit
\* value kept as two 16-bit halves (hash = hi * 2^16 + lo) so that the
\* product stays within the model checker's integers.
FnvWrite(h, b) ==
    LET x == (h.lo \div 256) * 256 + Xor(h.lo % 256, b)
        t == x * FnvPrimeLow
    IN [hi |-> (h.hi * FnvPrimeLow + (t \div 65536) + (x % 256) * 256) % 65536,
        lo |-> t % 65536]

\* h := fnv.New32a(); h.Write([]byte(baseName)); h.Sum32()
RECURSIVE FnvBytes(_, _)
FnvBytes(h, str) ==
    IF str = "" THEN h ELSE FnvBytes(FnvWrite(h, ByteOf(Head(str))), Tail(str))

Fnv32a(str) == FnvBytes([hi |-> FnvOffsetHi, lo |-> FnvOffsetLo], str)

\* hashValue % 55000 on the two halves
HashMod(h) ==
    ((h.hi % PortRangeSize) * (65536 % PortRangeSize) + h.lo) % PortRangeSize

getPortForConnection(baseName, basePort) ==
    IF baseName = "default" THEN basePort
    ELSE PortRangeStart + HashMod(Fnv32a(baseName))

\* The --connection names and --port values considered.
ConnectionNames ==
    {"default", "plc1", "plc2", "connection1", "connection2",
     "test-connection", "line1", "press-a", "PLC_3", "plc189", "plc1362"}

BasePorts == {DefaultPort, 9000, 63061}

\* Two plccli processes have parsed their flags: one started for connection
\* `connection` in service mode, the other (a client, or another gateway)
\* for connection `peer`, both with the same --port.
PortInit ==
    /\ ServiceInit /\ endpointUp
    /\ \E a \in ConnectionNames, b \in ConnectionNames, base \in BasePorts :
         fn = [name |-> "main", pc |-> "flags", connection |-> a, peer |-> b,
               port |-> base, actualPort |-> 0, peerPort |-> 0,
               connectionName |-> "", connectionPort |-> 0,
               info |-> NoResponse]

\* actualPort := getPortForConnection(*connection, *port), in each process
MainGetPort ==
    /\ fn.name = "main" /\ fn.pc = "flags"
    /\ fn' = [fn EXCEPT
                !.actualPort = getPortForConnection(fn.connection, fn.port),
                !.peerPort = getPortForConnection(fn.peer, fn.port),
                !.pc = "service"]
    /\ UNCHANGED serviceVars

\* startService(..., actualPort, ...): connectionPort = port, and
\* connectionName derived from the port.
MainStartService ==
    /\ fn.name = "main" /\ fn.pc = "service"
    /\ fn' = [fn EXCEPT !.connectionPort = fn.actualPort,
                        !.connectionName = ConnectionNameFor(fn.actualPort),
                        !.pc = "serving"]
    /\ UNCHANGED serviceVars

\* GET /api/info on the started service
MainInfo ==
    /\ fn.name = "main" /\ fn.pc = "serving"
    /\ fn' = [fn EXCEPT
                !.info = [kind |-> "info", connection |-> fn.connectionName,
                          port |-> fn.connectionPort, endpoint |-> Endpoint,
                          status |-> "connected"],
                !.pc = "answered"]
    /\ UNCHANGED serviceVars

PortNext == MainGetPort \/ MainStartService \/ MainInfo

PortSpec == PortInit /\ [][PortNext]_vars

\* ------------------------------------------------------------ parseNodeID
\* strings.Contains(s, c) for a one-character c
Contains(s, c) == \E i \in 1..Len(s) : Char(s, i) = c

\* strings.Split(s, sep) for a one-character sep: the texts between the
\* separators, one text when there is no separator.
RECURSIVE Split(_, _)
Split(s, sep) ==
    IF ~Contains(s, sep) THEN <<s>>
    ELSE LET i == CHOOSE k \in 1..Len(s) :
                     /\ Char(s, k) = sep
                     /\ \A j \in 1..(k - 1) : Char(s, j) # sep
         IN <<SubSeq(s, 1, i - 1)>> \o Split(SubSeq(s, i + 1, Len(s)), sep)

\* SplitParts knowing the comma only.
SplitParts_CommaOnly(nodeID) ==
    IF Contains(nodeID, ",") THEN Split(nodeID, ",")
    ELSE <<>>

\* The separator decision: the comma when the text has one, else the
\* semicolon when it has one; <<>> stands for the early error return.
SplitParts(nodeID) ==
    IF Contains(nodeID, ",") THEN Split(nodeID, ",")
    ELSE IF Contains(nodeID, ";") THEN Split(nodeID, ";")
    ELSE <<>>

\* The components extracted from the two parts (empty where a part does not
\* have the expected shape).
NodeComponents(parts) ==
    IF Len(parts) # 2
      THEN [namespace |-> "", idType |-> "", identifier |-> ""]
      ELSE LET nsParts == Split(parts[1], "=")
               idParts == Split(parts[2], "=")
           IN [namespace |-> IF Len(nsParts) = 2 /\ nsParts[1] = "ns"
                               THEN nsParts[2] ELSE "",
               idType |-> IF Len(idParts) = 2 THEN idParts[1] ELSE "",
               identifier |-> IF Len(idParts) = 2 THEN idParts[2] ELSE ""]

ParseFailed(e) ==
    [err |-> e, namespace |-> "", idType |-> "", identifier |-> ""]

\* parseNodeID accepting every non-empty identifier type.
parseNodeID_AnyType(nodeID) ==
    IF SplitParts(nodeID) = <<>> THEN ParseFailed("invalid node ID format")
    ELSE LET c == NodeComponents(SplitParts(nodeID))
         IN IF c.namespace = "" \/ c.idType = "" \/ c.identifier = ""
              THEN ParseFailed("invalid node ID format")
              ELSE [err |-> "none", namespace |-> c.namespace,
                    idType |-> c.idType, identifier |-> c.identifier]

parseNodeID(nodeID) ==
    IF SplitParts(nodeID) = <<>> THEN ParseFailed("invalid node ID format")
    ELSE LET c == NodeComponents(SplitParts(nodeID))
         IN IF c.namespace = "" \/ c.idType = "" \/ c.identifier = ""
              THEN ParseFailed("invalid node ID format")
            ELSE IF c.idType # "i" /\ c.idType # "s"
              THEN ParseFailed("unsupported identifier type")
            ELSE [err |-> "none", namespace |-> c.namespace,
                  idType |-> c.idType, identifier |-> c.identifier]

\* The node ID texts considered: every "ns=" N d K "=" I over these
\* namespaces, delimiters, types and identifiers, and some texts of another
\* shape.
ParseNamespaces == {"", "2", "10"}
ParseTypes == {"", "i", "s", "g"}
ParseIdentifiers == {"", "5", "Temp", "a.b", "a,b", "a;b", "a=b"}

NodeIDTexts ==
    { "ns=" \o N \o d \o K \o "=" \o I :
        N \in ParseNamespaces, d \in {";", ","}, K \in ParseTypes,
        I \in ParseIdentifiers }
    \cup {"", "garbage", "ns=1", "ns=2 s=a", "nx=1;s=a", "nx=1,s=a",
          "ns=1=2;s=a", "ns=1;s=a;s=b", "ns=1,s=a,s=b", "2;s=a", "ns=2;s",
          ";", ",", "ns=2;=;"}

\* The client is given a node ID on its command line.
ParseInit ==
    /\ ServiceInit /\ endpointUp
    /\ \E text \in NodeIDTexts :
         fn = [name |-> "parseNodeID", pc |-> "call", nodeID |-> text,
               result |-> [err |-> "pending"]]

\* namespace, idType, identifier, err := parseNodeID(nodeID)
ParseCall ==
    /\ fn.name = "parseNodeID" /\ fn.pc = "call"
    /\ fn' = [fn EXCEPT !.result = parseNodeID(fn.nodeID), !.pc = "returned"]
    /\ UNCHANGED serviceVars

ParseNext == ParseCall

ParseSpec == ParseInit /\ [][ParseNext]_vars

\* ------------------------------------------------------ telemetry encoder
\* strings.NewReplacer(",", "\\,", "=", "\\=", " ", "\\ ", "\"", "\\\"")
\* without the double quote.
RECURSIVE tagEscaper_NoQuote(_)
tagEscaper_NoQuote(s) ==
    IF s = "" THEN ""
    ELSE (IF Char(s, 1) \in {",", "=", " "}
            THEN "\\" \o Char(s, 1) ELSE Char(s, 1))
         \o tagEscaper_NoQuote(SubSeq(s, 2, Len(s)))

\* tagEscaper.Replace(s): one pass over the text, each comma, equals sign,
\* space and double quote replaced by a backslash and the character.
RECURSIVE tagEscaper(_)
tagEscaper(s) ==
    IF s = "" THEN ""
    ELSE (IF Char(s, 1) \in {",", "=", " ", "\""}
            THEN "\\" \o Char(s, 1) ELSE Char(s, 1))
         \o tagEscaper(SubSeq(s, 2, Len(s)))

\* The node addresses and endpoints the records are tagged with.
TagTargets ==
    { [nodeID |-> "ns=3;s=BoolValue", endpoint |-> "opc.tcp://plc:4840"],
      [nodeID |-> "ns=2,s=My \"Tag\"", endpoint |-> "opc.tcp://plc 1:4840"] }

\* time.Now().UnixNano(), as a count of instants.
Instants == {1, 2}

\* ---------------------------------------------------------------- bitfield
\* Bits of a uint32 (make([]BitValue, 32)).
NumBits == 32

\* A uint32 is held as its two 16-bit halves <<high half, low half>>.
\* A number is held as [kind, high, low, frac]: its whole part (the value
\* rounded toward zero) is high * 2^32 + low, where low is a uint32; frac
\* says whether a float has a fractional part.
Num(kind, high, low, frac) ==
    [kind |-> kind, high |-> high, low |-> low, frac |-> frac]

Zero == <<0, 0>>
Three == <<0, 3>>
Production == <<2048, 128>>       \* 134217856 = 0x08000080
TopBit == <<32768, 0>>            \* 2^31
AllOnes == <<65535, 65535>>       \* 2^32 - 1

\* The kinds of value an interface{} holds here.
SwitchKinds ==
    {"float64", "float32", "int", "int32", "int64", "uint", "uint32", "uint64"}
NarrowKinds == {"int8", "int16", "uint8", "uint16"}
FloatKinds == {"float64", "float32"}
NumericKinds == SwitchKinds \cup NarrowKinds

\* The values handed to the bit encoder: each within its kind's range.
BitValues ==
    { Num(k, 0, w, FALSE) : k \in NumericKinds, w \in {Zero, Three} }
    \cup { Num(k, 0, Production, FALSE) : k \in SwitchKinds }
    \cup { Num(k, 0, w, FALSE) :
             k \in {"int", "int64", "uint", "uint32", "uint64"},
             w \in {TopBit, AllOnes} }
    \cup { Num(k, -1, w, FALSE) :
             k \in {"int8", "int16", "int32", "int", "int64"},
             w \in {AllOnes, <<65535, 65408>>} }               \* -1, -128
    \cup { Num(k, 1, <<0, 5>>, FALSE) :
             k \in {"int", "int64", "uint", "uint64"} }        \* 2^32 + 5
    \cup { Num(k, 0, <<0, 2>>, TRUE) : k \in FloatKinds }      \* 2.5
    \cup { Num(k, -1, AllOnes, FALSE) : k \in FloatKinds }     \* -1.0
    \cup { Num(k, 1, <<0, 5>>, FALSE) : k \in {"float64"} }    \* 2^32 + 5
    \cup { [kind |-> "string", text |-> "test"],
           [kind |-> "bool", b |-> TRUE], [kind |-> "bool", b |-> FALSE],
           [kind |-> "nil"] }

\* uint32(v), also for a boolean (true as 1).
Uint32Outcomes_BoolAsNumber(value) ==
    IF value.kind = "bool" THEN {IF value.b THEN <<0, 1>> ELSE Zero}
    ELSE IF value.kind \notin SwitchKinds THEN {}
    ELSE IF value.kind \in FloatKinds /\ value.high # 0
      THEN {value.low, Zero, AllOnes}
    ELSE {value.low}

\* switch v := value.(type): the values uint32(v) can take, none for a
\* kind the switch does not list.  An integer conversion keeps the low 32
\* bits; a float conversion rounds toward zero, and its result for a value
\* a uint32 cannot hold depends on the platform (wrapped or saturated).
Uint32Outcomes(value) ==
    IF value.kind \notin SwitchKinds THEN {}
    ELSE IF value.kind \in FloatKinds /\ value.high # 0
      THEN {value.low, Zero, AllOnes}
    ELSE {value.low}

\* %T of the value
TypeName(value) == IF value.kind = "nil" THEN "<nil>" ELSE value.kind

\* getBitValue counting from the most significant bit.
getBitValue_FromTop(value, bitNum) ==
    IF bitNum < 0 \/ bitNum > 31 THEN 0
    ELSE IF 31 - bitNum < 16 THEN (value[2] \div (2 ^ (31 - bitNum))) % 2
    ELSE (value[1] \div (2 ^ (15 - bitNum))) % 2

\* getBitValue with the shift count taken modulo 32 and no range check.
getBitValue_ShiftWraps(value, bitNum) ==
    IF bitNum % 32 < 16 THEN (value[2] \div (2 ^ (bitNum % 32))) % 2
    ELSE (value[1] \div (2 ^ ((bitNum % 32) - 16))) % 2

\* int((value >> bitNum) & 1), 0 for a bit number outside 0..31
getBitValue(value, bitNum) ==
    IF bitNum < 0 \/ bitNum > 31 THEN 0
    ELSE IF bitNum < 16 THEN (value[2] \div (2 ^ bitNum)) % 2
    ELSE (value[1] \div (2 ^ (bitNum - 16))) % 2

\* A []string: nil, or a list of names.
NilNames == [isNil |-> TRUE, names |-> <<>>]
Names(list) == [isNil |-> FALSE, names |-> list]

\* validateBitNames refusing only a list that is too long.
validateBitNames_AtMost(names) ==
    IF names.isNil \/ Len(names.names) = 0 THEN "none"
    ELSE IF Len(names.names) > NumBits
      THEN "bit names must be exactly 32 (got "
             \o ToString(Len(names.names)) \o ")"
    ELSE "none"

\* validateBitNames: "none" for nil, or the error text
validateBitNames(names) ==
    IF names.isNil \/ Len(names.names) = 0 THEN "none"
    ELSE IF Len(names.names) # NumBits
      THEN "bit names must be exactly 32 (got "
             \o ToString(Len(names.names)) \o ")"
    ELSE "none"

\* extractBits reading every bit from the low half of the value.
extractBits_LowHalfOnly(value, bitNames) ==
    IF validateBitNames(bitNames) # "none"
      THEN [err |-> validateBitNames(bitNames), results |-> <<>>]
      ELSE [err |-> "none",
            results |->
              [n \in 1..NumBits |->
                 [BitNum |-> n - 1,
                  Value |-> getBitValue(value, (n - 1) % 16),
                  Name |-> IF ~bitNames.isNil /\ Len(bitNames.names) = NumBits
                             THEN bitNames.names[n]
                             ELSE "bit_" \o ToString(n - 1)]]]

\* extractBits: the error of validateBitNames and no list, or the 32
\* BitValue records
extractBits(value, bitNames) ==
    IF validateBitNames(bitNames) # "none"
      THEN [err |-> validateBitNames(bitNames), results |-> <<>>]
      ELSE [err |-> "none",
            results |->
              [n \in 1..NumBits |->
                 [BitNum |-> n - 1,
                  Value |-> getBitValue(value, n - 1),
                  Name |-> IF ~bitNames.isNil /\ Len(bitNames.names) = NumBits
                             THEN bitNames.names[n]
                             ELSE "bit_" \o ToString(n - 1)]]]

\* The name lists handed to the bit encoder.
AlarmNames == [n \in 1..NumBits |-> "alarm" \o ToString(n - 1)]

EscapedNames ==
    [n \in 1..NumBits |->
       IF n = 1 THEN "motor,fault"
       ELSE IF n = 2 THEN "temp=high"
       ELSE IF n = 3 THEN "status ok"
       ELSE IF n = 4 THEN "name\"quoted\""
       ELSE IF n = 5 THEN "a;b"
       ELSE IF n = 6 THEN "a, b=\"c\""
       ELSE "normal_bit"]

BitNameLists ==
    {NilNames, Names(<<>>), Names(AlarmNames), Names(EscapedNames),
     Names(<<"only">>), Names(SubSeq(AlarmNames, 1, NumBits - 1)),
     Names(AlarmNames \o <<"extra">>)}

BitsInit ==
    /\ ServiceInit /\ endpointUp
    /\ \E value \in BitValues, bitNames \in BitNameLists, t \in TagTargets :
         fn = [name |-> "formatInfluxOutputWithBits", pc |-> "convert",
               measurementName |-> "opcua_node", nodeID |-> t.nodeID,
               endpoint |-> t.endpoint, value |-> value,
               bitNames |-> bitNames, uint32Value |-> Zero, bits |-> <<>>,
               lines |-> <<>>, err |-> "none"]

\* switch v := value.(type) { ... uint32Value = uint32(v) ...
\* default: return nil, fmt.Errorf("value type %T cannot be converted ...") }
BitsConvert ==
    /\ fn.name = "formatInfluxOutputWithBits" /\ fn.pc = "convert"
    /\ \/ /\ Uint32Outcomes(fn.value) = {}
          /\ fn' = [fn EXCEPT !.pc = "returned",
                      !.err = "value type " \o TypeName(fn.value)
                                \o " cannot be converted to uint32"]
       \/ \E u \in Uint32Outcomes(fn.value) :
             fn' = [fn EXCEPT !.pc = "extract", !.uint32Value = u]
    /\ UNCHANGED serviceVars

\* bits, err := extractBits(uint32Value, bitNames)
\* if err != nil { return nil, err }
BitsExtract ==
    /\ fn.name = "formatInfluxOutputWithBits" /\ fn.pc = "extract"
    /\ LET r == extractBits(fn.uint32Value, fn.bitNames)
       IN IF r.err # "none"
            THEN fn' = [fn EXCEPT !.pc = "returned", !.err = r.err]
            ELSE fn' = [fn EXCEPT !.pc = "format", !.bits = r.results]
    /\ UNCHANGED serviceVars

\* One line per bit:
\* "%s,node_id=%s,endpoint=%s,bit=%d,bit_name=%s value=%d %d"
BitLine(measurementName, cleanNodeID, cleanEndpoint, bit, timestamp) ==
    [measurement |-> measurementName, node_id |-> cleanNodeID,
     endpoint |-> cleanEndpoint, bit |-> bit.BitNum,
     bit_name |-> tagEscaper(bit.Name), value |-> bit.Value,
     timestamp |-> timestamp]

BitsFormat ==
    /\ fn.name = "formatInfluxOutputWithBits" /\ fn.pc = "format"
    /\ \E timestamp \in Instants :
         fn' = [fn EXCEPT !.pc = "returned",
                  !.lines = [n \in 1..Len(fn.bits) |->
                               BitLine(fn.measurementName,
                                       tagEscaper(fn.nodeID),
                                       tagEscaper(fn.endpoint),
                                       fn.bits[n], timestamp)]]
    /\ UNCHANGED serviceVars

BitsNext == BitsConvert \/ BitsExtract \/ BitsFormat

BitsSpec == BitsInit /\ [][BitsNext]_vars

\* ---------------------------------------------------------- scalar encoder
\* The decimal value of a text of digits
RECURSIVE Atoi(_)
Atoi(s) ==
    IF s = "" THEN 0
    ELSE 10 * Atoi(SubSeq(s, 1, Len(s) - 1)) + DigitVal(Char(s, Len(s)))

IsLeap(year) ==
    year % 4 = 0 /\ (year % 100 # 0 \/ year % 400 = 0)

DaysIn(month, year) ==
    IF month = 2 THEN (IF IsLeap(year) THEN 29 ELSE 28)
    ELSE IF month \in {4, 6, 9, 11} THEN 30 ELSE 31

\* Days from 1970-01-01 to the given date of the proleptic Gregorian calendar
DaysSinceEpoch(year, month, day) ==
    LET y == IF month <= 2 THEN year - 1 ELSE year
        era == y \div 400
        yoe == y - era * 400
        mp == IF month > 2 THEN month - 3 ELSE month + 9
        doy == ((153 * mp + 2) \div 5) + day - 1
        doe == yoe * 365 + (yoe \div 4) - (yoe \div 100) + doy
    IN era * 146097 + doe - 719468

\* The first nine digits of a fraction, as nanoseconds
FracNanos(digits) ==
    LET kept == IF Len(digits) > 9 THEN SubSeq(digits, 1, 9) ELSE digits
    IN Atoi(kept) * (10 ^ (9 - Len(kept)))

\* time.Parse("2006-01-02T15:04:05.999999Z", v) and
\* time.Parse("2006-01-02T15:04:05Z", v): when parsing, a fraction of any
\* number of digits may follow the seconds under either layout, so the two
\* accept the same texts.  The instant is [ok, sec, nsec], sec in seconds
\* since 1970 (dates from 1970 to 2037 here).
TimeShape(v) ==
    /\ Len(v) >= 20
    /\ AllDigits(SubSeq(v, 1, 4)) /\ Char(v, 5) = "-"
    /\ AllDigits(SubSeq(v, 6, 7)) /\ Char(v, 8) = "-"
    /\ AllDigits(SubSeq(v, 9, 10)) /\ Char(v, 11) = "T"
    /\ AllDigits(SubSeq(v, 12, 13)) /\ Char(v, 14) = ":"
    /\ AllDigits(SubSeq(v, 15, 16)) /\ Char(v, 17) = ":"
    /\ AllDigits(SubSeq(v, 18, 19))
    /\ Char(v, Len(v)) = "Z"
    /\ Len(v) > 20 =>
          /\ Char(v, 20) = "." /\ Len(v) >= 22
          /\ AllDigits(SubSeq(v, 21, Len(v) - 1))

ParseTime(v) ==
    IF ~TimeShape(v) THEN [ok |-> FALSE, sec |-> 0, nsec |-> 0]
    ELSE LET year == Atoi(SubSeq(v, 1, 4))
             month == Atoi(SubSeq(v, 6, 7))
             day == Atoi(SubSeq(v, 9, 10))
             hour == Atoi(SubSeq(v, 12, 13))
             min == Atoi(SubSeq(v, 15, 16))
             sec == Atoi(SubSeq(v, 18, 19))
         IN IF \/ month < 1 \/ month > 12
               \/ day < 1 \/ day > DaysIn(month, year)
               \/ hour > 23 \/ min > 59 \/ sec > 59
              THEN [ok |-> FALSE, sec |-> 0, nsec |-> 0]
              ELSE [ok |-> TRUE,
                    sec |-> DaysSinceEpoch(year, month, day) * 86400
                              + hour * 3600 + min * 60 + sec,
                    nsec |-> IF Len(v) > 20
                               THEN FracNanos(SubSeq(v, 21, Len(v) - 1))
                               ELSE 0]

\* %d of t.UnixNano(): sec * 10^9 + nsec written in decimal
RECURSIVE PadNine(_)
PadNine(digits) == IF Len(digits) >= 9 THEN digits ELSE PadNine("0" \o digits)

UnixNanoText(t) ==
    IF t.sec = 0 THEN ToString(t.nsec)
    ELSE ToString(t.sec) \o PadNine(ToString(t.nsec))

\* strings.Replace(v, "\"", "\\\"", -1)
RECURSIVE EscapeQuotes(_)
EscapeQuotes(s) ==
    IF s = "" THEN ""
    ELSE (IF Char(s, 1) = "\"" THEN "\\\"" ELSE Char(s, 1))
         \o EscapeQuotes(SubSeq(s, 2, Len(s)))

\* %v of a value: a number (whole, or whole and a half; the floats here are
\* below 10^6, where %v writes no exponent), or the text a value of another
\* kind prints as
FormatV(value) ==
    IF value.kind \in NumericKinds
      THEN ToString(value.whole) \o (IF value.half THEN ".5" ELSE "")
    ELSE IF value.kind = "nil" THEN "<nil>"
    ELSE value.text

\* The values handed to the scalar encoder.
Scalar(kind, whole, half) == [kind |-> kind, whole |-> whole, half |-> half]

ScalarValues ==
    { [kind |-> "bool", b |-> b] : b \in BOOLEAN }
    \cup { Scalar(k, n, FALSE) : k \in NumericKinds, n \in {0, 3, 42} }
    \cup { Scalar(k, -7, FALSE) :
             k \in {"int8", "int16", "int32", "int", "int64",
                    "float64", "float32"} }
    \cup { Scalar(k, 2, TRUE) : k \in FloatKinds }
    \cup { [kind |-> "string", text |-> t] :
             t \in {"", "test string", "say \"hi\", twice",
                    "2024-01-15T10:30:00Z", "2024-01-15T10:30:00.123456Z",
                    "2024-13-15T10:30:00Z", "2024-01-15 10:30:00"} }
    \cup { [kind |-> "nil"], [kind |-> "slice", text |-> "[1 2]"],
           [kind |-> "slice", text |-> "[say \"hi\"]"] }

\* valueStr with a string emitted as a string field only.
valueStr_StringOnly(value) ==
    IF value.kind = "string"
      THEN IF ParseTime(value.text).ok
             THEN "value=" \o UnixNanoText(ParseTime(value.text))
             ELSE "string_value=\"" \o EscapeQuotes(value.text) \o "\""
    ELSE IF value.kind = "bool"
      THEN IF value.b THEN "value=1" ELSE "value=0"
    ELSE IF value.kind \in SwitchKinds
      THEN "value=" \o FormatV(value)
    ELSE "value=1,string_value=\"" \o FormatV(value) \o "\""

\* switch v := value.(type): the fields of the record
valueStr(value) ==
    IF value.kind = "string"
      THEN IF ParseTime(value.text).ok
             THEN "value=" \o UnixNanoText(ParseTime(value.text))
             ELSE "value=1,string_value=\""
                    \o EscapeQuotes(value.text) \o "\""
    ELSE IF value.kind = "bool"
      THEN IF value.b THEN "value=1" ELSE "value=0"
    ELSE IF value.kind \in SwitchKinds
      THEN "value=" \o FormatV(value)
    ELSE "value=1,string_value=\"" \o FormatV(value) \o "\""

ScalarInit ==
    /\ ServiceInit /\ endpointUp
    /\ \E value \in ScalarValues, t \in TagTargets :
         fn = [name |-> "formatInfluxOutput", pc |-> "switch",
               measurementName |-> "opcua_node", nodeID |-> t.nodeID,
               endpoint |-> t.endpoint, value |-> value,
               cleanNodeID |-> tagEscaper(t.nodeID),
               cleanEndpoint |-> tagEscaper(t.endpoint),
               valueStr |-> "", result |-> ""]

ScalarSwitch ==
    /\ fn.name = "formatInfluxOutput" /\ fn.pc = "switch"
    /\ fn' = [fn EXCEPT !.pc = "sprintf", !.valueStr = valueStr(fn.value)]
    /\ UNCHANGED serviceVars

\* timestamp := time.Now().UnixNano()
\* return fmt.Sprintf("%s,node_id=%s,endpoint=%s %s %d", ...)
ScalarSprintf ==
    /\ fn.name = "formatInfluxOutput" /\ fn.pc = "sprintf"
    /\ \E timestamp \in Instants :
         fn' = [fn EXCEPT !.pc = "returned",
                  !.result = fn.measurementName \o ",node_id="
                               \o fn.cleanNodeID \o ",endpoint="
                               \o fn.cleanEndpoint \o " " \o fn.valueStr
                               \o " " \o ToString(timestamp)]
    /\ UNCHANGED serviceVars

ScalarNext == ScalarSwitch \/ ScalarSprintf

ScalarSpec == ScalarInit /\ [][ScalarNext]_vars

\* ------------------------------------------------------- client get / set
\* Addresses on one command line (get takes any number).
MaxAddresses == 3

\* strings.TrimSpace, for spaces
RECURSIVE TrimSpace(_)
TrimSpace(s) ==
    IF s = "" THEN ""
    ELSE IF Char(s, 1) = " " THEN TrimSpace(SubSeq(s, 2, Len(s)))
    ELSE IF Char(s, Len(s)) = " " THEN TrimSpace(SubSeq(s, 1, Len(s) - 1))
    ELSE s

\* The --bit-names texts: none, 32 names, 31 names, 2 names.
RECURSIVE JoinNames(_, _)
JoinNames(list, sep) ==
    IF Len(list) = 0 THEN ""
    ELSE IF Len(list) = 1 THEN list[1]
    ELSE list[1] \o sep \o JoinNames(Tail(list), sep)

BitNameTexts ==
    {"", JoinNames(AlarmNames, ", "),
     JoinNames(SubSeq(AlarmNames, 1, NumBits - 1), ","), "run, stop"}

\* bitNames = strings.Split(bitNamesStr, ","), each name trimmed; nil when
\* the text is empty
ParseBitNames(bitNamesStr) ==
    IF bitNamesStr = "" THEN NilNames
    ELSE LET parts == Split(bitNamesStr, ",")
         IN Names([i \in 1..Len(parts) |-> TrimSpace(parts[i])])

ClientAddresses == {"ns=2;s=A", "ns=2,i=5", "ns=3;s=My Tag", "bad"}

AddressLists ==
    UNION { [1..n -> ClientAddresses] : n \in 0..MaxAddresses }

\* The value the gateway reads for a node, as the client decodes it from
\* JSON: a float64 or a string.
Decoded(n) ==
    [kind |-> "float64", whole |-> n, half |-> FALSE,
     high |-> 0, low |-> <<0, n>>, frac |-> FALSE]

NodeData(node) ==
    IF node.identifier = "A" THEN Decoded(11)
    ELSE IF node.identifier = "5" THEN Decoded(22)
    ELSE [kind |-> "string", text |-> "on"]

\* The records of one slot of the answer, for the address nodeID:
\* formatInfluxOutputWithBits or formatInfluxOutput.  u is the uint32 the
\* value converts to.
SlotLinesFor(c, nodeID, value, u, timestamp) ==
    IF c.extractBits
      THEN LET bits == extractBits(u, c.bitNames).results
           IN [n \in 1..Len(bits) |->
                 BitLine(c.measurementName, tagEscaper(nodeID),
                         tagEscaper(c.endpoint), bits[n], timestamp)]
      ELSE << [measurement |-> c.measurementName,
               node_id |-> tagEscaper(nodeID),
               endpoint |-> tagEscaper(c.endpoint),
               fields |-> valueStr(value), timestamp |-> timestamp] >>

\* The records of slot i, tagged with the first address.
SlotLines_FirstAddress(c, i, u, timestamp) ==
    IF c.results[i].error THEN <<>>
    ELSE SlotLinesFor(c, c.nodeIDs[1], c.results[i].value, u, timestamp)

\* for i, result := range batchResp.Results: nothing for a slot with an
\* error, else the records of result.Value tagged with nodeIDs[i]
SlotLines(c, i, u, timestamp) ==
    IF c.results[i].error THEN <<>>
    ELSE SlotLinesFor(c, c.nodeIDs[i], c.results[i].value, u, timestamp)

RECURSIVE BatchLines(_, _, _, _)
BatchLines(c, i, us, timestamp) ==
    IF i > Len(c.results) THEN <<>>
    ELSE SlotLines(c, i, us[i], timestamp)
           \o BatchLines(c, i + 1, us, timestamp)

\* The first slot whose value the bit encoder refuses, 0 when there is none
BitFailure(c) ==
    LET bad == {i \in 1..Len(c.results) :
                  /\ ~c.results[i].error
                  /\ Uint32Outcomes(c.results[i].value) = {}}
    IN IF c.extractBits /\ bad # {}
         THEN CHOOSE i \in bad : \A j \in bad : i <= j
         ELSE 0

\* The uint32 values the slots convert to (Zero where no conversion is made)
SlotConversions(c) ==
    { us \in [1..Len(c.results) -> {Zero, <<0, 11>>, <<0, 22>>}] :
        \A i \in 1..Len(c.results) :
           IF ~c.results[i].error /\ c.extractBits
                /\ Uint32Outcomes(c.results[i].value) # {}
             THEN us[i] \in Uint32Outcomes(c.results[i].value)
             ELSE us[i] = Zero }

ClientInit ==
    /\ ServiceInit /\ endpointUp
    /\ \/ \E nodeIDs \in AddressLists, text \in BitNameTexts,
             format \in {"influx", "text"}, extract \in BOOLEAN :
             fn = [name |-> "client", op |-> "get", pc |-> "start",
                   nodeIDs |-> nodeIDs, bitNamesStr |-> text,
                   bitNames |-> NilNames, format |-> format,
                   extractBits |-> extract, measurementName |-> "opcua_node",
                   value |-> "", dataType |-> "", endpoint |-> "",
                   parsed |-> <<>>, sent |-> <<>>, results |-> <<>>,
                   out |-> <<>>, err |-> "none"]
       \/ \E nodeID \in ClientAddresses, dataType \in {"", "int32"},
             format \in {"influx", "text"} :
             fn = [name |-> "client", op |-> "set", pc |-> "start",
                   nodeIDs |-> <<nodeID>>, bitNamesStr |-> "",
                   bitNames |-> NilNames, format |-> format,
                   extractBits |-> FALSE, measurementName |-> "opcua_set",
                   value |-> "7", dataType |-> dataType, endpoint |-> "",
                   parsed |-> <<>>, sent |-> <<>>, results |-> <<>>,
                   out |-> <<>>, err |-> "none"]

ClientReturn(e) == fn' = [fn EXCEPT !.pc = "returned", !.err = e]

\* getNodeValues: the address count and the bit names are checked first
GetStart ==
    /\ fn.name = "client" /\ fn.op = "get" /\ fn.pc = "start"
    /\ IF Len(fn.nodeIDs) = 0 THEN ClientReturn("no node IDs provided")
       ELSE IF validateBitNames(ParseBitNames(fn.bitNamesStr)) # "none"
         THEN ClientReturn(validateBitNames(ParseBitNames(fn.bitNamesStr)))
       ELSE fn' = [fn EXCEPT !.pc = "info",
                     !.bitNames = ParseBitNames(fn.bitNamesStr)]
    /\ UNCHANGED serviceVars

\* info, err := getConnectionInfo(host, port); a failure leaves "unknown"
GetInfo ==
    /\ fn.name = "client" /\ fn.op = "get" /\ fn.pc = "info"
    /\ \E endpoint \in {Endpoint, "unknown"} :
         fn' = [fn EXCEPT !.pc = "parse", !.sent = Append(@, "info"),
                  !.endpoint = endpoint]
    /\ UNCHANGED serviceVars

\* parseNodeID of the one address (getNodeValue) or of each address in turn
\* (the batch loop): the first error is returned
GetParse ==
    /\ fn.name = "client" /\ fn.op = "get" /\ fn.pc = "parse"
    /\ LET bad == {i \in 1..Len(fn.nodeIDs) :
                     parseNodeID(fn.nodeIDs[i]).err # "none"}
       IN IF bad # {}
            THEN ClientReturn(
                   parseNodeID(fn.nodeIDs[CHOOSE i \in bad :
                                 \A j \in bad : i <= j]).err)
            ELSE fn' = [fn EXCEPT !.pc = "request",
                          !.parsed = [i \in 1..Len(fn.nodeIDs) |->
                                        parseNodeID(fn.nodeIDs[i])]]
    /\ UNCHANGED serviceVars

\* The GET of /api/node or the POST of /api/nodes and its answer: no
\* connection, an error of the service, or one result per node, each an
\* error or the node's value.
GetRequest ==
    /\ fn.name = "client" /\ fn.op = "get" /\ fn.pc = "request"
    /\ LET kind == IF Len(fn.nodeIDs) = 1 THEN "read" ELSE "batch"
       IN \/ \E e \in {"cannot connect to OPCUA service",
                       "service reported error"} :
               fn' = [fn EXCEPT !.pc = "returned", !.err = e,
                        !.sent = Append(@, kind)]
          \/ \E failed \in SUBSET (1..Len(fn.nodeIDs)) :
               /\ kind = "read" => failed = {}
               /\ fn' = [fn EXCEPT !.pc = "format",
                           !.sent = Append(@, kind),
                           !.results =
                             [i \in 1..Len(fn.nodeIDs) |->
                                IF i \in failed
                                  THEN [error |-> TRUE,
                                        value |-> [kind |-> "nil"]]
                                  ELSE [error |-> FALSE,
                                        value |-> NodeData(fn.parsed[i])]]]
    /\ UNCHANGED serviceVars

\* The output: records (format influx) or the values as text
GetFormat ==
    /\ fn.name = "client" /\ fn.op = "get" /\ fn.pc = "format"
    /\ IF fn.format = "influx"
         THEN IF BitFailure(fn) # 0
                THEN ClientReturn("bit expansion failed: value type "
                       \o TypeName(fn.results[BitFailure(fn)].value)
                       \o " cannot be converted to uint32")
                ELSE \E timestamp \in Instants, us \in SlotConversions(fn) :
                       fn' = [fn EXCEPT !.pc = "returned",
                                !.out = BatchLines(fn, 1, us, timestamp)]
         ELSE fn' = [fn EXCEPT !.pc = "returned",
                       !.out = [i \in 1..Len(fn.results) |->
                                  IF fn.results[i].error
                                    THEN [text |-> "Error: Failed to read node"]
                                    ELSE [text |->
                                            FormatV(fn.results[i].value)]]]
    /\ UNCHANGED serviceVars

\* setNodeValue: the address is parsed, then the data type is required
SetParse ==
    /\ fn.name = "client" /\ fn.op = "set" /\ fn.pc = "start"
    /\ IF parseNodeID(fn.nodeIDs[1]).err # "none"
         THEN ClientReturn(parseNodeID(fn.nodeIDs[1]).err)
       ELSE IF fn.dataType = ""
         THEN ClientReturn("data type is required for writing values")
       ELSE fn' = [fn EXCEPT !.pc = "post",
                     !.parsed = <<parseNodeID(fn.nodeIDs[1])>>]
    /\ UNCHANGED serviceVars

\* The POST of /api/node and its answer
SetPost ==
    /\ fn.name = "client" /\ fn.op = "set" /\ fn.pc = "post"
    /\ \/ \E e \in {"cannot connect to OPCUA service",
                    "service reported error"} :
            fn' = [fn EXCEPT !.pc = "returned", !.err = e,
                     !.sent = Append(@, "write")]
       \/ fn' = [fn EXCEPT !.pc = "set_info", !.sent = Append(@, "write")]
    /\ UNCHANGED serviceVars

\* getConnectionInfo, then the record or the text of the result
SetInfo ==
    /\ fn.name = "client" /\ fn.op = "set" /\ fn.pc = "set_info"
    /\ \E endpoint \in {Endpoint, "unknown"}, timestamp \in Instants :
         fn' = [fn EXCEPT !.pc = "returned", !.sent = Append(@, "info"),
                  !.endpoint = endpoint,
                  !.out = IF fn.format = "influx"
                            THEN << [measurement |-> fn.measurementName,
                                     node_id |-> tagEscaper(fn.nodeIDs[1]),
                                     endpoint |-> tagEscaper(endpoint),
                                     fields |->
                                       valueStr([kind |-> "string",
                                                 text |-> fn.value]),
                                     timestamp |-> timestamp] >>
                            ELSE << [text |-> "Successfully set "
                                               \o fn.nodeIDs[1]] >>]
    /\ UNCHANGED serviceVars

ClientNext ==
    \/ GetStart \/ GetInfo \/ GetParse \/ GetRequest \/ GetFormat
    \/ SetParse \/ SetPost \/ SetInfo

ClientSpec == ClientInit /\ [][ClientNext]_vars

\* ------------------------------------------------- bitfield functions
\* The 16-bit halves the uint32 values are made of, and the bit numbers
\* asked for.
HalfSamples == {0, 1, 128, 2048, 32768, 43690, 65535}
Uint32Samples == HalfSamples \X HalfSamples
BitNumbers == (0 - 3)..35

BitfieldInit ==
    /\ ServiceInit /\ endpointUp
    /\ \/ \E value \in Uint32Samples, other \in Uint32Samples,
             bitNames \in {NilNames, Names(AlarmNames)} :
             fn = [name |-> "extractBits", pc |-> "call", value |-> value,
                   other |-> other, bitNames |-> bitNames,
                   bits |-> <<>>, otherBits |-> <<>>, bitNum |-> 0,
                   result |-> 0]
       \/ \E value \in Uint32Samples, bitNum \in BitNumbers :
             fn = [name |-> "getBitValue", pc |-> "call", value |-> value,
                   other |-> Zero, bitNames |-> NilNames,
                   bits |-> <<>>, otherBits |-> <<>>, bitNum |-> bitNum,
                   result |-> 0]

\* extractBits applied to two values
ExtractBitsCall ==
    /\ fn.name = "extractBits" /\ fn.pc = "call"
    /\ fn' = [fn EXCEPT !.pc = "returned",
                !.bits = extractBits(fn.value, fn.bitNames).results,
                !.otherBits = extractBits(fn.other, fn.bitNames).results]
    /\ UNCHANGED serviceVars

GetBitValueCall ==
    /\ fn.name = "getBitValue" /\ fn.pc = "call"
    /\ fn' = [fn EXCEPT !.pc = "returned",
                !.result = getBitValue(fn.value, fn.bitNum)]
    /\ UNCHANGED serviceVars

BitfieldNext == ExtractBitsCall \/ GetBitValueCall

BitfieldSpec == BitfieldInit /\ [][BitfieldNext]_vars

\* ================================================================ claims

\* C1: no task holds clientMutex while a network call of its own to the
\* remote endpoint (read, close, connect) is in progress.
C1_NoLockAcrossNetworkCall ==
    /\ MainInNetworkCall => clientMutex # MainTask
    /\ \A h \in Handlers : HandlerInNetworkCall(h) => clientMutex # h

\* C2: once a failed keep-alive read has entered the reconnect cycle, the
\* cycle proceeds: its first statement, the Lock(), can be taken, at once or
\* as soon as the handler holding the mutex has released it.
C2_ReconnectProceeds ==
    (Alive /\ mainPc = "rc_lock") =>
        (ENABLED MainLock \/ clientMutex \in Handlers)

\* C3: while the process serves and the endpoint accepts connections again
\* (from some point on it stays up), a session that is not Connected
\* eventually is Connected again, unless the process has ended.
C3_EventuallyConnectedAgain ==
    (<>[]endpointUp) =>
        ((server = "listening" /\ SessionState # "Connected")
            ~> (SessionState = "Connected" \/ ~Alive))

\* C4: a reconnect cycle closes the broken session and clears the handle
\* before its first connect attempt; its attempts are numbered 0, 1, ... and
\* there are at most 5; it returns at the first attempt that succeeds; after
\* a failed attempt it sleeps min(2^attempt, 30) seconds before the next one.
C4_Attempting ==
    caller = "reconnectOPCUA" /\
    mainPc \in {"conn_cert", "conn_endpoints", "conn_dial", "conn_lock", "conn_store"}

C4_Inv ==
    /\ C4_Attempting =>
          /\ attempt \in 0..4
          /\ opcuaClient = NoHandle
          /\ open \subseteq (IF mainPc \in {"conn_lock", "conn_store"}
                               THEN {client} ELSE {})
    /\ mainPc = "rc_sleep" =>
          backoffTime = (IF 2^attempt > 30 THEN 30 ELSE 2^attempt)

C4_Step ==
    /\ (mainPc \in {"rc_check", "rc_close"} /\ mainPc' = "rc_loop") =>
          (attempt' = 0 /\ opcuaClient' = NoHandle)
    /\ (mainPc = "conn_ok" /\ mainPc' # mainPc) =>
          (mainPc' = "ka_unlock" /\ opcuaClient' = client
             /\ opcuaClient' \in open')
    /\ (mainPc = "conn_err" /\ mainPc' # mainPc) =>
          \/ attempt < 4 /\ mainPc' = "rc_sleep" /\ attempt' = attempt
          \/ attempt = 4 /\ mainPc' = "rc_loop" /\ attempt' = 5
    /\ (mainPc = "rc_sleep" /\ mainPc' # mainPc) =>
          (mainPc' = "rc_loop" /\ attempt' = attempt + 1)
    /\ (mainPc = "rc_loop" /\ mainPc' # mainPc) =>
          \/ attempt < 5 /\ mainPc' = "conn_cert"
          \/ attempt = 5 /\ mainPc' = "ka_unlock"

C4_ReconnectCycle == []C4_Inv /\ [][C4_Step]_vars

\* A cycle whose five attempts all failed, the last sleep being 2^3 s.
C4_Witness ==
    /\ mainPc = "ka_unlock" /\ attempt = 5
    /\ backoffTime = 8 /\ opcuaClient = NoHandle /\ open = {}

\* C5: a read, batch read, write or browse handled while no handle is
\* installed is answered with the not-connected error and has issued no
\* remote call; no handler ever calls the endpoint on a nil handle.
C5_Inv ==
    \A h \in Handlers :
        hpc[h] \in {"ready", "call"} => hclient[h] # NoHandle

C5_Step ==
    \A h \in Handlers :
        (hpc[h] = "snap" /\ hpc'[h] # "snap" /\ opcuaClient = NoHandle
           /\ exitedBy' = "none") =>
            /\ hkind[h] \in {"read", "batch", "write", "browse"}
            /\ hresp'[h] = Response("not_connected")
            /\ hpc'[h] = "idle"
            /\ hcalls[h] = 0

C5_NotConnected == []C5_Inv /\ [][C5_Step]_vars

\* A request answered not-connected: the handle is nil, the listener is
\* still up.
C5_Witness ==
    \E h \in Handlers :
        /\ hresp[h] = Response("not_connected")
        /\ opcuaClient = NoHandle /\ server = "listening"

\* C6 (as claimed): a handler's remote call that returns an I/O error while
\* the session is Connected moves the session to Reconnecting.
C6_CallFailureTriggersReconnect ==
    [][\A h \in Handlers :
         (hpc[h] = "call" /\ hresp'[h] = Response("io_error")
            /\ SessionState = "Connected")
           => SessionState' = "Reconnecting"]_vars

\* C6 (amended): a handler's remote call that returns an I/O error is
\* answered with that error and leaves the session as it was (state, handle,
\* open sessions, the keep-alive loop's position); the reconnect cycle is
\* entered from the keep-alive read alone.
C6_Step ==
    /\ \A h \in Handlers :
         (hpc[h] = "call" /\ hpc'[h] # "call" /\ exitedBy' = "none"
            /\ ~(endpointUp /\ hclient[h] \in open)) =>
             /\ hkind[h] # "batch" => hresp'[h] = Response("io_error")
             /\ SessionState' = SessionState
             /\ UNCHANGED <<opcuaClient, open, mainPc, caller, clientMutex>>
    /\ (SessionState # "Reconnecting" /\ SessionState' = "Reconnecting") =>
          mainPc = "ka_read"

C6_CallFailureOnlyAnswered == [][C6_Step]_vars

\* A request answered with the I/O error while the session stays Connected.
C6_Witness ==
    \E h \in Handlers :
        hresp[h] = Response("io_error") /\ SessionState = "Connected"

\* C7: no step of a request handler changes opcuaClient; the handle changes
\* only in connectOPCUA's store, reconnectOPCUA's clear and the shutdown
\* path's clear.
C7_Step ==
    /\ (\E h \in Handlers : HandlerStep(h)) => opcuaClient' = opcuaClient
    /\ opcuaClient' # opcuaClient =>
          \/ mainPc = "conn_store" /\ opcuaClient' = client
          \/ mainPc \in {"rc_close", "sd_close"} /\ opcuaClient' = NoHandle

C7_HandlersOnlyRead == [][C7_Step]_vars

\* Two handlers inside their remote calls on the installed handle.
C7_Witness ==
    \E g, h \in Handlers :
        /\ g # h /\ hpc[g] = "call" /\ hpc[h] = "call"
        /\ hclient[g] = opcuaClient /\ hclient[h] = opcuaClient
        /\ opcuaClient # NoHandle

\* C8: no request handler waits for ever: whenever a handler waits for
\* clientMutex, the mutex is free, or held by a handler (which releases it in
\* its next statement), or held by the startService goroutine while that
\* goroutine can still take a step.
C8_NoHandlerWaitsForever ==
    \A h \in Handlers :
        (Alive /\ hpc[h] = "lock") =>
            \/ clientMutex = NoHolder
            \/ clientMutex \in Handlers
            \/ clientMutex = MainTask /\ ENABLED MainStep

\* C9: the info query can be answered whenever the listener is up, whatever
\* the session state and whoever holds clientMutex; its answer carries the
\* connection name, the port, the endpoint and a status; answering it takes
\* one step that touches neither clientMutex nor the handle and issues no
\* remote call.
C9_Inv ==
    \A h \in Handlers :
        /\ (Alive /\ server = "listening" /\ hpc[h] = "idle") =>
              ENABLED HandleInfo(h)
        /\ hresp[h].kind = "info" =>
              hresp[h] = [kind |-> "info", connection |-> connectionName,
                          port |-> connectionPort, endpoint |-> Endpoint,
                          status |-> "connected"]

C9_Step ==
    \A h \in Handlers :
        (hresp'[h] # hresp[h] /\ hresp'[h].kind = "info") =>
            /\ hpc[h] = "idle" /\ hpc'[h] = "idle"
            /\ UNCHANGED <<clientMutex, opcuaClient, hclient, hcalls>>

C9_InfoAlwaysAnswered == []C9_Inv /\ [][C9_Step]_vars

\* An info answer given while the startService goroutine holds clientMutex
\* inside a reconnect cycle and the other handler waits for the mutex.
C9_Witness ==
    \E g, h \in Handlers :
        /\ hresp[h].kind = "info" /\ hpc[g] = "lock"
        /\ clientMutex = MainTask /\ SessionState = "Reconnecting"

\* C10: the process never ends after a signal with the session still
\* installed or open.
C10_ClosedBeforeExit ==
    (~Alive /\ sigPc # "wait") => (opcuaClient = NoHandle /\ open = {})

\* C11: at most one session to the endpoint is open at any time, an
\* installed handle is that open session, and a handle is installed only
\* when no other session is open.
C11_Inv ==
    /\ Cardinality(open) <= 1
    /\ opcuaClient # NoHandle => open = {opcuaClient}

C11_Step ==
    (opcuaClient' # opcuaClient /\ opcuaClient' # NoHandle) =>
        (opcuaClient = NoHandle /\ open = {opcuaClient'})

C12_FirstConfiguredEndpoint ==
    (fn.name = "connectOPCUA" /\ fn.pc # "find") =>
        LET q == {i \in DOMAIN fn.endpoints :
                    /\ fn.endpoints[i].policy = fn.config.policy
                    /\ fn.endpoints[i].mode = fn.config.mode
                    /\ fn.config.auth \in fn.endpoints[i].tokens}
        IN IF q = {}
             THEN fn.serverEndpoint = 0 /\ fn.err # "none"
             ELSE /\ fn.serverEndpoint \in q
                  /\ \A k \in q : fn.serverEndpoint <= k
                  /\ fn.err = "none"

\* C13: a batch read of n addresses answers with n results, the i-th for
\* the i-th address, and every slot's result is the one that address gets
\* on its own: an error for a missing field, an invalid address or a failed
\* read, a value otherwise, whatever happened in the other slots.
C13_SlotsIndependent ==
    (fn.name = "handleBatchNodeRequest" /\ fn.pc = "returned") =>
        /\ Len(fn.sent) = Len(fn.nodes)
        /\ \A i \in DOMAIN fn.nodes :
              /\ fn.sent[i].node = i
              /\ fn.sent[i].kind =
                    CASE fn.nodes[i] = "missing" -> "missing_parameters"
                      [] fn.nodes[i] = "invalid" -> "invalid_node_id"
                      [] fn.nodes[i] = "value"   -> "value"
                      [] OTHER                   -> "read_failed"

\* C14: a write with no data type, with a data type outside the supported
\* set, or with a value that does not parse under its data type sends no
\* write to the endpoint and is answered with an error; when the request
\* reaches the type checks (well-formed address, handle installed) the
\* error is the one of the data type: the type is required, the type as
\* given is unsupported, or the value is invalid for the (lower-cased) type.
C14_Rejected ==
    \/ fn.dataType = ""
    \/ ConvertValue(fn.dataType, fn.value).kind # "variant"

C14_RejectedBeforeWrite ==
    (fn.name = "handleNodeWriteRequest" /\ C14_Rejected) =>
        /\ fn.writes = 0
        /\ fn.pc # "write"
        /\ fn.pc = "returned" =>
             /\ fn.resp.kind \notin {"none", "value"}
             /\ (fn.address = "ok" /\ fn.client) =>
                  fn.resp =
                    IF fn.dataType = "" THEN [kind |-> "type_required"]
                    ELSE IF ToLower(fn.dataType) \notin
                              {"boolean", "sbyte", "byte", "int16", "uint16",
                               "int32", "uint32", "int64", "uint64", "float",
                               "double", "string"}
                      THEN [kind |-> "unsupported_type", tag |-> fn.dataType]
                    ELSE [kind |-> "invalid_value", tag |-> ToLower(fn.dataType)]

\* A byte write of 256 with a client installed has been answered.
C14_Witness ==
    /\ fn.name = "handleNodeWriteRequest" /\ fn.pc = "returned"
    /\ fn.address = "ok" /\ fn.client
    /\ fn.dataType = "byte" /\ fn.value = "256"
    /\ fn.resp = [kind |-> "invalid_value", tag |-> "byte"]
    /\ fn.writes = 0

\* C16: under data type boolean the conversion maps true, TRUE and 1 to
\* true, false, FALSE and 0 to false, and rejects 2, the empty text and
\* text that is not boolean.
C16_Converted ==
    /\ fn.name = "handleNodeWriteRequest"
    /\ ToLower(fn.dataType) = "boolean"
    /\ fn.address = "ok" /\ fn.client
    /\ fn.pc \in {"write", "returned"}

C16_BooleanTexts ==
    C16_Converted =>
        /\ fn.value \in {"true", "TRUE", "1"} =>
             (fn.variant.kind = "variant" /\ fn.variant.value.value = TRUE)
        /\ fn.value \in {"false", "FALSE", "0"} =>
             (fn.variant.kind = "variant" /\ fn.variant.value.value = FALSE)
        /\ fn.value \in {"2", "", "not-a-bool", "yes", "tRuE", "12a", "-1"} =>
             /\ fn.variant.kind = "none" /\ fn.writes = 0
             /\ fn.resp = [kind |-> "invalid_value", tag |-> "boolean"]

\* TRUE written under data type Boolean.
C16_Witness ==
    /\ C16_Converted /\ fn.pc = "returned"
    /\ fn.dataType = "Boolean" /\ fn.value = "TRUE"
    /\ fn.variant.value.value = TRUE
    /\ fn.resp.kind = "value"

\* C17: under an integer data type a decimal text (digits, or a minus sign
\* and the digits of a number below zero) is accepted exactly when its value
\* is in the range of the width, signed or unsigned; out of range and
\* negative-under-unsigned texts are rejected, not wrapped; the value
\* written is the value of the text.
C17_IntTags ==
    {"sbyte", "byte", "int16", "uint16", "int32", "uint32", "int64", "uint64"}

C17_Digits(text) == IF Head(text) = "-" THEN Tail(text) ELSE text

C17_IsDecimal(text) ==
    /\ text # "" /\ C17_Digits(text) # ""
    /\ \A i \in 1..Len(C17_Digits(text)) : Char(C17_Digits(text), i) \in Digits
    /\ Head(text) = "-" =>
         \E i \in 1..Len(C17_Digits(text)) : Char(C17_Digits(text), i) # "0"

RECURSIVE C17_Val(_)
C17_Val(ds) ==
    IF ds = "" THEN 0
    ELSE 10 * C17_Val(SubSeq(ds, 1, Len(ds) - 1)) + DigitVal(Char(ds, Len(ds)))

\* The value of a text of at most nine digits.
C17_Value(text) ==
    IF Head(text) = "-" THEN 0 - C17_Val(C17_Digits(text))
    ELSE C17_Val(text)

\* The longer texts of WriteTexts that are in range, by data type.
C17_LongInRange(tag) ==
    CASE tag = "int32"  -> {"2147483647", "-2147483648"}
      [] tag = "uint32" -> {"2147483647", "2147483648", "4294967295"}
      [] tag = "int64"  -> {"2147483647", "2147483648", "-2147483648",
                            "-2147483649", "4294967295", "4294967296",
                            "9223372036854775807", "-9223372036854775808"}
      [] tag = "uint64" -> {"2147483647", "2147483648", "4294967295",
                            "4294967296", "9223372036854775807",
                            "9223372036854775808", "18446744073709551615"}
      [] OTHER -> {}

C17_InRange(tag, text) ==
    IF Len(C17_Digits(text)) > 9 THEN text \in C17_LongInRange(tag)
    ELSE CASE tag = "sbyte"  -> C17_Value(text) \in -128..127
           [] tag = "byte"   -> C17_Value(text) \in 0..255
           [] tag = "int16"  -> C17_Value(text) \in -32768..32767
           [] tag = "uint16" -> C17_Value(text) \in 0..65535
           [] tag \in {"uint32", "uint64"} -> C17_Value(text) >= 0
           [] OTHER -> TRUE

C17_IntegerRanges ==
    ( /\ fn.name = "handleNodeWriteRequest"
      /\ ToLower(fn.dataType) \in C17_IntTags
      /\ C17_IsDecimal(fn.value)
      /\ fn.address = "ok" /\ fn.client
      /\ fn.pc \in {"write", "returned"} ) =>
        IF C17_InRange(ToLower(fn.dataType), fn.value)
          THEN /\ fn.variant.kind = "variant"
               /\ fn.variant.value.neg = (Head(fn.value) = "-")
               /\ fn.variant.value.mag = StripZeros(C17_Digits(fn.value))
               /\ Len(fn.variant.value.mag) <= 9 =>
                    C17_Val(fn.variant.value.mag) = C17_Val(C17_Digits(fn.value))
          ELSE /\ fn.variant.kind = "none" /\ fn.writes = 0
               /\ fn.resp = [kind |-> "invalid_value",
                             tag |-> ToLower(fn.dataType)]

\* -128 written as an sbyte, and 128 rejected for it.
C17_Witness ==
    /\ fn.name = "handleNodeWriteRequest" /\ fn.pc = "returned"
    /\ fn.address = "ok" /\ fn.client /\ fn.dataType = "sbyte"
    /\ \/ fn.value = "-128" /\ fn.resp.kind = "value"
             /\ fn.variant.value = [err |-> "none", neg |-> TRUE, mag |-> "128"]
       \/ fn.value = "128" /\ fn.resp.kind = "invalid_value"

\* C15: a write whose value parses issues exactly one write operation; a
\* read, write or browse request answers as soon as its one call returns,
\* with success only when the call succeeded and with the failure (transport
\* error or bad status) otherwise; a failed call is never issued again.
C15_Inv ==
    \A h \in Handlers :
       hkind[h] \in {"read", "write", "browse"} =>
          /\ hcalls[h] <= 1
          /\ hpc[h] = "ready" => (hcalls[h] = 0 /\ ENABLED HandlerCall(h))
          /\ hpc[h] = "call" => hcalls[h] = 1

C15_Step ==
    \A h \in Handlers :
       ( /\ hkind[h] \in {"read", "write", "browse"}
         /\ hpc[h] = "call" /\ hpc'[h] \notin {"call", "gone"} ) =>
           /\ hpc'[h] = "idle"
           /\ hresp'[h].kind \in {"value", "remote_failed", "io_error"}
           /\ hresp'[h].kind = "value" => (endpointUp /\ hclient[h] \in open)
           /\ ~(endpointUp /\ hclient[h] \in open) => hresp'[h].kind = "io_error"

C15_OneCallNoRetry == []C15_Inv /\ [][C15_Step]_vars

\* A write whose one call is failing on a dead endpoint.
C15_Witness ==
    \E h \in Handlers :
       /\ hkind[h] = "write" /\ hpc[h] = "call" /\ hcalls[h] = 1
       /\ ~endpointUp

\* C18: the port of "default" is the base port; the port of any other name
\* is 10000 + (FNV-1a-32(name) mod 55000), within 10000..64999, and two
\* processes given the same name compute the same port.
C18_Fnv1aMod55000(name) ==
    CASE name = "plc1"            -> 53061
      [] name = "plc2"            -> 45204
      [] name = "connection1"     -> 23680
      [] name = "connection2"     -> 31537
      [] name = "test-connection" -> 8744
      [] name = "line1"           -> 53218
      [] name = "press-a"         -> 36294
      [] name = "PLC_3"           -> 42808
      [] name = "plc189"          -> 13746
      [] name = "plc1362"         -> 13746

C18_PortFor ==
    (fn.name = "main" /\ fn.pc # "flags") =>
        /\ fn.connection = "default" => fn.actualPort = fn.port
        /\ fn.connection # "default" =>
             /\ fn.actualPort = 10000 + C18_Fnv1aMod55000(fn.connection)
             /\ fn.actualPort \in 10000..64999
        /\ fn.connection = fn.peer => fn.actualPort = fn.peerPort

\* Gateway and client for "plc1" both at port 63061.
C18_Witness ==
    /\ fn.name = "main" /\ fn.pc = "service"
    /\ fn.connection = "plc1" /\ fn.peer = "plc1"
    /\ fn.actualPort = 63061 /\ fn.peerPort = 63061

\* C19: processes started for different connection names get different
\* ports.
C19_NoPortCollision ==
    (fn.name = "main" /\ fn.pc # "flags" /\ fn.connection # fn.peer) =>
        fn.actualPort # fn.peerPort

\* C20: the connection name in the info response is the name the gateway
\* was started for.
C20_InfoReportsConnection ==
    (fn.name = "main" /\ fn.pc = "answered") =>
        fn.info.connection = fn.connection

\* C21: for a non-empty namespace N, a type K of i or s and a non-empty
\* identifier I, none containing ';', ',' or '=', both "ns=N;K=I" and
\* "ns=N,K=I" parse, to the same (N, K, I).
C21_DelimiterIndependent ==
    (fn.name = "parseNodeID" /\ fn.pc = "returned") =>
        \A N \in {"2", "10"}, K \in {"i", "s"}, I \in {"5", "Temp", "a.b"},
           d \in {";", ","} :
           fn.nodeID = "ns=" \o N \o d \o K \o "=" \o I =>
              fn.result = [err |-> "none", namespace |-> N, idType |-> K,
                           identifier |-> I]

\* "ns=10,s=a.b" parsed.
C21_Witness ==
    /\ fn.name = "parseNodeID" /\ fn.pc = "returned"
    /\ fn.nodeID = "ns=10,s=a.b"
    /\ fn.result = [err |-> "none", namespace |-> "10", idType |-> "s",
                    identifier |-> "a.b"]

\* C22: parse fails, returning no component, for a text with neither
\* delimiter, with a number of clauses other than two, with a first clause
\* that is not ns=<non-empty namespace>, with an empty type or identifier,
\* or with a type other than i and s; in the last case (the rest being well
\* formed) the error is the unsupported-identifier-type one.
C22_NoDelimiter ==
    {"", "garbage", "ns=1", "ns=2 s=a"}

C22_NotTwoClauses ==
    {"ns=1;s=a;s=b", "ns=1,s=a,s=b", "ns=2;=;"}

C22_BadFirstClause ==
    {"nx=1;s=a", "nx=1,s=a", "ns=1=2;s=a", "2;s=a", ";", ","}
    \cup { "ns=" \o d \o K \o "=" \o I :
             d \in {";", ","}, K \in ParseTypes, I \in ParseIdentifiers }

C22_EmptyTypeOrIdentifier ==
    {"ns=2;s"}
    \cup { "ns=" \o N \o d \o "=" \o I :
             N \in ParseNamespaces, d \in {";", ","}, I \in ParseIdentifiers }
    \cup { "ns=" \o N \o d \o K \o "=" :
             N \in ParseNamespaces, d \in {";", ","}, K \in ParseTypes }

C22_BadType ==
    { "ns=" \o N \o d \o "g=" \o I :
        N \in {"2", "10"}, d \in {";", ","}, I \in {"5", "Temp", "a.b"} }

C22_ParseFails ==
    (fn.name = "parseNodeID" /\ fn.pc = "returned") =>
        /\ fn.nodeID \in (C22_NoDelimiter \cup C22_NotTwoClauses
                            \cup C22_BadFirstClause
                            \cup C22_EmptyTypeOrIdentifier \cup C22_BadType) =>
              fn.result.err # "none"
        /\ fn.nodeID \in C22_BadType =>
              fn.result.err = "unsupported identifier type"
        /\ fn.result.err # "none" =>
              /\ fn.result.namespace = "" /\ fn.result.idType = ""
              /\ fn.result.identifier = ""

\* "ns=2;g=Temp" refused for its type.
C22_Witness ==
    /\ fn.name = "parseNodeID" /\ fn.pc = "returned"
    /\ fn.nodeID = "ns=2;g=Temp"
    /\ fn.result = ParseFailed("unsupported identifier type")

\* C23: an identifier containing one delimiter parses, verbatim, when the
\* other delimiter separates the clauses: "ns=N;s=<id with ','>" and
\* "ns=N,s=<id with ';'>".
C23_OtherDelimiterInside ==
    (fn.name = "parseNodeID" /\ fn.pc = "returned") =>
        \A N \in {"2", "10"} :
           /\ fn.nodeID = "ns=" \o N \o ";s=a,b" =>
                fn.result = [err |-> "none", namespace |-> N, idType |-> "s",
                             identifier |-> "a,b"]
           /\ fn.nodeID = "ns=" \o N \o ",s=a;b" =>
                fn.result = [err |-> "none", namespace |-> N, idType |-> "s",
                             identifier |-> "a;b"]

\* C24: on success encodeBits returns exactly 32 records in bit order; record
\* i carries bit = i, value = bit i of the value as a uint32 (bit 0 the least
\* significant), and bit_name = bit_<i> with no names or the i-th supplied
\* name; for 134217856 exactly bits 7 and 27 are 1.
C24_Returned ==
    /\ fn.name = "formatInfluxOutputWithBits" /\ fn.pc = "returned"
    /\ fn.err = "none"

\* The sum over the bits a..b of value_i * 2^(i mod 16)
RECURSIVE C24_Weight(_, _, _)
C24_Weight(lines, a, b) ==
    IF a > b THEN 0
    ELSE lines[a + 1].value * (2 ^ (a % 16)) + C24_Weight(lines, a + 1, b)

C24_Exact ==
    fn.value.kind \in SwitchKinds
      /\ (fn.value.kind \in FloatKinds => fn.value.high = 0)

C24_Plain(text) ==
    \A i \in 1..Len(text) : Char(text, i) \notin {",", "=", " ", "\""}

C24_ThirtyTwoRecords ==
    C24_Returned =>
        /\ Len(fn.lines) = 32
        /\ \A i \in 0..31 :
              /\ fn.lines[i + 1].bit = i
              /\ fn.lines[i + 1].value \in {0, 1}
              /\ (fn.bitNames.isNil \/ fn.bitNames.names = <<>>) =>
                    fn.lines[i + 1].bit_name = "bit_" \o ToString(i)
              /\ (fn.bitNames.names # <<>>
                    /\ C24_Plain(fn.bitNames.names[i + 1])) =>
                    fn.lines[i + 1].bit_name = fn.bitNames.names[i + 1]
        /\ C24_Exact =>
              /\ C24_Weight(fn.lines, 0, 15) = fn.value.low[2]
              /\ C24_Weight(fn.lines, 16, 31) = fn.value.low[1]
        /\ (C24_Exact /\ fn.value.low = <<2048, 128>>) =>
              {i \in 0..31 : fn.lines[i + 1].value = 1} = {7, 27}

\* 134217856 encoded under 32 supplied names.
C24_Witness ==
    /\ C24_Returned
    /\ fn.value = Num("uint32", 0, <<2048, 128>>, FALSE)
    /\ fn.bitNames = Names(AlarmNames)
    /\ fn.lines[8].bit = 7 /\ fn.lines[8].value = 1
    /\ fn.lines[8].bit_name = "alarm7"
    /\ fn.lines[28].value = 1 /\ fn.lines[1].value = 0

\* C25: for a string, a boolean or an absent value encodeBits fails with an
\* error naming the value's type and returns no record list, not even a
\* partial one.
C25_TypeError ==
    (fn.name = "formatInfluxOutputWithBits"
       /\ fn.value.kind \in {"string", "bool", "nil"}) =>
        /\ fn.pc \in {"convert", "returned"}
        /\ fn.lines = <<>> /\ fn.bits = <<>>
        /\ fn.pc = "returned" =>
              /\ fn.value.kind = "string" =>
                   fn.err = "value type string cannot be converted to uint32"
              /\ fn.value.kind = "bool" =>
                   fn.err = "value type bool cannot be converted to uint32"
              /\ fn.value.kind = "nil" =>
                   fn.err = "value type <nil> cannot be converted to uint32"

\* A boolean refused.
C25_Witness ==
    /\ fn.name = "formatInfluxOutputWithBits" /\ fn.pc = "returned"
    /\ fn.value = [kind |-> "bool", b |-> TRUE]
    /\ fn.err = "value type bool cannot be converted to uint32"
    /\ fn.lines = <<>>

\* C26: encodeBits accepts a value of every signed, unsigned and floating
\* numeric kind, of any width, and an integer contributes exactly its low 32
\* bits to the 32 records.
C26_EveryNumericKind ==
    (fn.name = "formatInfluxOutputWithBits" /\ fn.pc = "returned"
       /\ fn.value.kind \in NumericKinds
       /\ validateBitNames(fn.bitNames) = "none") =>
        /\ fn.err = "none"
        /\ Len(fn.lines) = 32
        /\ fn.value.kind \notin FloatKinds =>
              /\ C24_Weight(fn.lines, 0, 15) = fn.value.low[2]
              /\ C24_Weight(fn.lines, 16, 31) = fn.value.low[1]

\* C27: a non-empty bit-name list of a length other than 32 makes
\* validateBitNames, extractBits and encodeBits fail with the
\* bit-name-count error and no record, for every numeric value, zero
\* included; an absent list, an empty one and one of 32 names are accepted.
C27_CountError(names) ==
    "bit names must be exactly 32 (got " \o ToString(Len(names.names)) \o ")"

C27_WrongCount(names) ==
    ~names.isNil /\ Len(names.names) \notin {0, 32}

C27_BitNameCount ==
    /\ \A names \in BitNameLists, v \in {Zero, Three, Production, AllOnes} :
          IF C27_WrongCount(names)
            THEN /\ validateBitNames(names) = C27_CountError(names)
                 /\ extractBits(v, names)
                      = [err |-> C27_CountError(names), results |-> <<>>]
            ELSE /\ validateBitNames(names) = "none"
                 /\ extractBits(v, names).err = "none"
                 /\ Len(extractBits(v, names).results) = 32
    /\ (fn.name = "formatInfluxOutputWithBits"
          /\ fn.value.kind \in SwitchKinds) =>
          IF C27_WrongCount(fn.bitNames)
            THEN /\ fn.pc # "format"
                 /\ fn.lines = <<>> /\ fn.bits = <<>>
                 /\ fn.pc = "returned" => fn.err = C27_CountError(fn.bitNames)
            ELSE fn.pc = "returned" => (fn.err = "none" /\ Len(fn.lines) = 32)

\* Zero with 31 names refused.
C27_Witness ==
    /\ fn.name = "formatInfluxOutputWithBits" /\ fn.pc = "returned"
    /\ fn.value = Num("int", 0, Zero, FALSE)
    /\ Len(fn.bitNames.names) = 31
    /\ fn.err = "bit names must be exactly 32 (got 31)"
    /\ fn.lines = <<>>

\* C28: each tag value of an emitted record (node_id, endpoint, bit_name) is
\* the original text with every comma, equals sign, space and double quote
\* preceded by one backslash and every other character, ';' included,
\* unchanged.
C28_Expected(text) ==
    CASE text = "ns=3;s=BoolValue" -> "ns\\=3;s\\=BoolValue"
      [] text = "ns=2,s=My \"Tag\"" -> "ns\\=2\\,s\\=My\\ \\\"Tag\\\""
      [] text = "opc.tcp://plc 1:4840" -> "opc.tcp://plc\\ 1:4840"
      [] text = "motor,fault" -> "motor\\,fault"
      [] text = "temp=high" -> "temp\\=high"
      [] text = "status ok" -> "status\\ ok"
      [] text = "name\"quoted\"" -> "name\\\"quoted\\\""
      [] text = "a, b=\"c\"" -> "a\\,\\ b\\=\\\"c\\\""
      [] OTHER -> text

C28_TagsEscaped ==
    C24_Returned =>
        \A i \in 1..Len(fn.lines) :
           /\ fn.lines[i].node_id = C28_Expected(fn.nodeID)
           /\ fn.lines[i].endpoint = C28_Expected(fn.endpoint)
           /\ fn.lines[i].bit_name
                = C28_Expected(IF fn.bitNames.names = <<>>
                                 THEN "bit_" \o ToString(i - 1)
                                 ELSE fn.bitNames.names[i])
           /\ Len(fn.lines[i].bit_name)
                = Len(fn.bits[i].Name)
                    + Cardinality({k \in 1..Len(fn.bits[i].Name) :
                                     ~C24_Plain(Char(fn.bits[i].Name, k))})

\* The names of the escaping test encoded.
C28_Witness ==
    /\ C24_Returned
    /\ fn.nodeID = "ns=3;s=BoolValue"
    /\ fn.bitNames = Names(EscapedNames)
    /\ fn.lines[1].node_id = "ns\\=3;s\\=BoolValue"
    /\ fn.lines[4].bit_name = "name\\\"quoted\\\""
    /\ fn.lines[5].bit_name = "a;b"
    /\ fn.lines[7].bit_name = "normal_bit"

\* C29: every record of the scalar encoder, for a value of every kind,
\* contains a numeric field named value: its field set starts with value=
\* followed by a number.
C29_Number(text) ==
    LET digits == IF text # "" /\ Char(text, 1) = "-"
                    THEN SubSeq(text, 2, Len(text)) ELSE text
        parts == Split(digits, ".")
    IN /\ Len(parts) \in {1, 2}
       /\ \A i \in 1..Len(parts) : parts[i] # "" /\ AllDigits(parts[i])

C29_ValueField(fields) ==
    LET first == Split(fields, ",")[1]
    IN /\ Len(first) > 6
       /\ SubSeq(first, 1, 6) = "value="
       /\ C29_Number(SubSeq(first, 7, Len(first)))

C29_NumericField ==
    (fn.name = "formatInfluxOutput" /\ fn.pc = "returned") =>
        /\ C29_ValueField(fn.valueStr)
        /\ \E timestamp \in Instants :
              fn.result = "opcua_node,node_id=" \o fn.cleanNodeID
                            \o ",endpoint=" \o fn.cleanEndpoint \o " "
                            \o fn.valueStr \o " " \o ToString(timestamp)

\* An ordinary string encoded.
C29_Witness ==
    /\ fn.name = "formatInfluxOutput" /\ fn.pc = "returned"
    /\ fn.value = [kind |-> "string", text |-> "test string"]
    /\ fn.valueStr = "value=1,string_value=\"test string\""
    /\ fn.result = "opcua_node,node_id=ns\\=3;s\\=BoolValue,endpoint=opc.tcp://plc:4840 value=1,string_value=\"test string\" 1"

\* C30: the scalar encoder emits a boolean as value=1 or value=0, and a
\* value of any integer or float kind, of every width, as the number
\* itself, not a constant.
C30_NumbersPassThrough ==
    (fn.name = "formatInfluxOutput" /\ fn.pc = "returned") =>
        /\ fn.value.kind = "bool" =>
              fn.valueStr = (IF fn.value.b THEN "value=1" ELSE "value=0")
        /\ fn.value.kind \in NumericKinds =>
              fn.valueStr = "value=" \o ToString(fn.value.whole)
                              \o (IF fn.value.half THEN ".5" ELSE "")

\* C31: whenever the scalar encoder emits string_value (for a string in
\* neither timestamp format and for a value of any other non-numeric kind),
\* the record also carries value=1, and the string field's content is
\* wrapped in double quotes with every double quote inside it preceded by a
\* backslash.
C31_Prefix == "value=1,string_value=\""

C31_HasStringField(fields) ==
    \E k \in 1..Len(fields) :
       k + 12 <= Len(fields) /\ SubSeq(fields, k, k + 12) = "string_value="

C31_Content(fields) == SubSeq(fields, Len(C31_Prefix) + 1, Len(fields) - 1)

C31_StringFieldQuoted ==
    (fn.name = "formatInfluxOutput" /\ fn.pc = "returned"
       /\ C31_HasStringField(fn.valueStr)) =>
        /\ Len(fn.valueStr) > Len(C31_Prefix)
        /\ SubSeq(fn.valueStr, 1, Len(C31_Prefix)) = C31_Prefix
        /\ Char(fn.valueStr, Len(fn.valueStr)) = "\""
        /\ LET content == C31_Content(fn.valueStr)
           IN \A k \in 1..Len(content) :
                 Char(content, k) = "\"" =>
                    (k > 1 /\ Char(content, k - 1) = "\\")

\* C32: in the client's get and set operations a malformed node address (any
\* one of those supplied) or a non-empty bit-name list of a length other
\* than 32 is reported before any request (info, read, batch read, write)
\* has been sent to the gateway and before any record has been output.
C32_ValidationError ==
    fn.err \in {"invalid node ID format", "unsupported identifier type",
                "bit names must be exactly 32 (got 31)",
                "bit names must be exactly 32 (got 2)"}

C32_ReportedBeforeAnyRequest ==
    (fn.name = "client" /\ fn.pc = "returned" /\ C32_ValidationError) =>
        (fn.sent = <<>> /\ fn.out = <<>>)

\* C37: in the client's multi-address get with record output, every record
\* carries the node_id of the address whose value it encodes, also when some
\* addresses of the batch failed: a slot with an error produces no record,
\* the others produce theirs, and the records are in the caller's address
\* order.
C37_NodeId(address) ==
    CASE address = "ns=2;s=A" -> "ns\\=2;s\\=A"
      [] address = "ns=2,i=5" -> "ns\\=2\\,i\\=5"
      [] address = "ns=3;s=My Tag" -> "ns\\=3;s\\=My\\ Tag"

C37_Fields(address) ==
    CASE address = "ns=2;s=A" -> "value=11"
      [] address = "ns=2,i=5" -> "value=22"
      [] address = "ns=3;s=My Tag" -> "value=1,string_value=\"on\""

C37_Bits(address) ==
    CASE address = "ns=2;s=A" -> {0, 1, 3}
      [] address = "ns=2,i=5" -> {1, 2, 4}

\* The addresses whose slot holds a value, in the caller's order
RECURSIVE C37_Kept(_, _, _)
C37_Kept(nodeIDs, results, i) ==
    IF i > Len(nodeIDs) THEN <<>>
    ELSE (IF results[i].error THEN <<>> ELSE <<nodeIDs[i]>>)
           \o C37_Kept(nodeIDs, results, i + 1)

C37_BatchReturned ==
    /\ fn.name = "client" /\ fn.op = "get" /\ fn.pc = "returned"
    /\ fn.err = "none" /\ fn.format = "influx" /\ Len(fn.nodeIDs) >= 2

C37_RecordsFollowAddresses ==
    C37_BatchReturned =>
        LET kept == C37_Kept(fn.nodeIDs, fn.results, 1)
        IN IF ~fn.extractBits
             THEN /\ Len(fn.out) = Len(kept)
                  /\ \A k \in 1..Len(kept) :
                        /\ fn.out[k].node_id = C37_NodeId(kept[k])
                        /\ fn.out[k].fields = C37_Fields(kept[k])
             ELSE /\ Len(fn.out) = 32 * Len(kept)
                  /\ \A k \in 1..Len(kept), b \in 0..31 :
                        LET line == fn.out[32 * (k - 1) + b + 1]
                        IN /\ line.node_id = C37_NodeId(kept[k])
                           /\ line.bit = b
                           /\ line.value = 1 <=> b \in C37_Bits(kept[k])

\* Three addresses, the middle one failed: two records, first and third.
C37_Witness ==
    /\ C37_BatchReturned /\ ~fn.extractBits
    /\ fn.nodeIDs = <<"ns=2;s=A", "ns=3;s=My Tag", "ns=2,i=5">>
    /\ fn.results[2].error /\ ~fn.results[1].error /\ ~fn.results[3].error
    /\ Len(fn.out) = 2
    /\ fn.out[1].node_id = "ns\\=2;s\\=A" /\ fn.out[1].fields = "value=11"
    /\ fn.out[2].node_id = "ns\\=2\\,i\\=5" /\ fn.out[2].fields = "value=22"

\* C38: bit expansion is lossless: extractBits(v, names) yields 32 entries,
\* each 0 or 1, whose weighted sum (value_i * 2^i over i in 0..31) is v, and
\* two different values never give the same list of bit values.
RECURSIVE C38_Weight(_, _, _)
C38_Weight(bits, a, b) ==
    IF a > b THEN 0
    ELSE bits[a + 1].Value * (2 ^ (a % 16)) + C38_Weight(bits, a + 1, b)

C38_BitList(bits) == [n \in 1..Len(bits) |-> bits[n].Value]

C38_Lossless ==
    (fn.name = "extractBits" /\ fn.pc = "returned") =>
        /\ Len(fn.bits) = 32
        /\ \A n \in 1..32 : fn.bits[n].Value \in {0, 1}
        /\ C38_Weight(fn.bits, 0, 15) = fn.value[2]
        /\ C38_Weight(fn.bits, 16, 31) = fn.value[1]
        /\ fn.value # fn.other =>
              C38_BitList(fn.bits) # C38_BitList(fn.otherBits)

\* 0xFFFFFFFF and 0x80000000 expanded.
C38_Witness ==
    /\ fn.name = "extractBits" /\ fn.pc = "returned"
    /\ fn.value = <<65535, 65535>> /\ fn.other = <<32768, 0>>
    /\ \A n \in 1..32 : fn.bits[n].Value = 1
    /\ fn.otherBits[32].Value = 1 /\ fn.otherBits[31].Value = 0

\* C39: getBitValue(value, n) is (value >> n) & 1 for every n in 0..31 and 0,
\* for every value, when n is below 0 or above 31.
\* The binary digits of a 16-bit half, least significant first
RECURSIVE C39_Binary(_, _)
C39_Binary(h, k) ==
    IF k = 0 THEN <<>> ELSE <<h % 2>> \o C39_Binary(h \div 2, k - 1)

C39_Digits(value) == C39_Binary(value[2], 16) \o C39_Binary(value[1], 16)

C39_BitOrZero ==
    (fn.name = "getBitValue" /\ fn.pc = "returned") =>
        IF fn.bitNum \in 0..31
          THEN fn.result = C39_Digits(fn.value)[fn.bitNum + 1]
          ELSE fn.result = 0

\* Bit 32 of 0xFFFFFFFF asked for.
C39_Witness ==
    /\ fn.name = "getBitValue" /\ fn.pc = "returned"
    /\ fn.value = <<65535, 65535>> /\ fn.bitNum = 32 /\ fn.result = 0

\* C33: no task tries to acquire clientMutex while it already holds it, so
\* that no task is blocked for ever on the lock.
C33_NoSelfAcquire ==
    /\ (Alive /\ mainPc \in LockSites) => clientMutex # MainTask
    /\ \A h \in Handlers : (Alive /\ hpc[h] = "lock") => clientMutex # h

\* C34: the handle a handler snapshotted under the lock is still open when
\* the handler issues its remote call on it: neither the reconnect cycle nor
\* the shutdown path has closed it.
C34_CallOnOpenHandle ==
    [][\A h \in Handlers :
         (hpc[h] = "ready" /\ hpc'[h] = "call") => hclient[h] \in open]_vars

\* C35: the listener and the keep-alive timer start only after the initial
\* connect has succeeded and installed a handle; when the initial connect
\* fails the process ends, having served no request and without entering
\* the reconnect cycle.
C35_Inv ==
    /\ server = "off" =>
          /\ mainPc \in ConnectPcs /\ caller = "startService"
          /\ \A h \in Handlers :
                hpc[h] \in {"idle", "gone"} /\ hresp[h] = NoResponse
    /\ (Alive /\ mainPc = "conn_err" /\ caller = "startService") =>
          ENABLED StartConnFailed
    /\ exitedBy = "fatal" =>
          /\ server = "off" /\ caller = "startService" /\ attempt = 0
          /\ opcuaClient = NoHandle

C35_Step ==
    /\ (server = "off" /\ server' # "off") =>
          /\ mainPc = "conn_ok" /\ mainPc' = "select"
          /\ opcuaClient # NoHandle /\ opcuaClient \in open
    /\ (mainPc = "conn_err" /\ caller = "startService") =>
          /\ mainPc' = "conn_err" /\ caller' = caller /\ server' = "off"
          /\ exitedBy' \in {exitedBy, "fatal", "signal"}

C35_ServeAfterConnect == []C35_Inv /\ [][C35_Step]_vars

\* The initial connect failed and the process has ended.
C35_Witness ==
    /\ exitedBy = "fatal" /\ mainPc = "conn_err" /\ server = "off"
    /\ \A h \in Handlers : hresp[h] = NoResponse

\* C36: a connect attempt that fails at any step leaves the installed handle
\* as it was; the handle is assigned only as the last step of a connect that
\* succeeded; after a failed attempt inside a reconnect cycle the handle is
\* still absent.
C36_Inv ==
    (caller = "reconnectOPCUA" /\ mainPc \in {"conn_err", "rc_sleep"}) =>
        opcuaClient = NoHandle

C36_Step ==
    /\ (mainPc \in ConnectPcs /\ mainPc' = "conn_err") =>
          opcuaClient' = opcuaClient
    /\ (mainPc \in ConnectPcs \ {"conn_store"}) =>
          opcuaClient' = opcuaClient
    /\ (opcuaClient' # opcuaClient /\ opcuaClient' # NoHandle) =>
          /\ mainPc = "conn_store" /\ mainPc' = "conn_ok"
          /\ opcuaClient' = client /\ client \in open

C36_FailedConnectKeepsHandle == []C36_Inv /\ [][C36_Step]_vars

\* The third attempt of a reconnect cycle has failed at the session connect.
C36_Witness ==
    /\ caller = "reconnectOPCUA" /\ mainPc = "conn_err" /\ attempt = 2
    /\ opcuaClient = NoHandle /\ open = {}
====
